---- MODULE Spec2Model ----
(***************************************************************************)
(* Model of the dynamic debate engine of src/src/agents/                   *)
(* debate_orchestrator.py: the round dispatcher conduct_dynamic_debate,    *)
(* the five round handlers, add_user_as_panelist, _validate_analysis and  *)
(* _temperature_leq_threshold, conduct_static_debate, and the session      *)
(* methods announce_debate_format, introduce_panels, conduct_debate and    *)
(* conclude_debate.                                                        *)
(*                                                                         *)
(* The analyzer (analyze_debate_state), the responder                      *)
(* (generate_dynamic_manager_response) and the resolver                    *)
(* (analyze_manager_message) are collaborators: their return values are    *)
(* inputs drawn from bounded sets.  The text of a statement is produced by *)
(* the participant and is not modelled; a transcript entry keeps its       *)
(* agent_name, its stage label and the round number the label carries.     *)
(* The sentinel string of the resolver (Korean for "all") is written       *)
(* "ALL".                                                                   *)
(***************************************************************************)
EXTENDS Integers, Sequences, FiniteSets, TLC

VARIABLES
    pc,                        \* position of the modelled control flow
    panel_agents,              \* the roster: sequence of [name, is_human]
    min_rounds,                \* self.debate_rounds
    original_max_rounds,       \* dynamic_settings['max_rounds']
    analysis_frequency,        \* dynamic_settings['analysis_frequency']
    intervention_threshold,    \* dynamic_settings['intervention_threshold']
    max_rounds,
    current_round,
    consecutive_cold_rounds,
    consecutive_failed_rounds,
    last_round_type,
    last_change_angle_round,
    analysis,                  \* <<>> is None, <<a>> is the validated dict a
    round_completed,
    all_statements,            \* self.all_statements
    failing,                   \* names of the agents whose completion call raises
    response_generator,        \* self._response_generator: the ResponseGenerator
                               \* the property builds, or an injected object
    force_rebind_mocks,        \* os.getenv('FORCE_REBIND_MOCKS') == '1'
    statements,                \* one record per respond_to_debate call that
                               \* returned: the
                               \* list handed over and the position of
                               \* all_statements the reply was appended at
    apologies,                 \* positions of all_statements that hold the
                               \* canned apology of PanelAgent.get_response
    initial_opinions_done,     \* self._initial_opinions_done
    display,                   \* presenter calls seen so far, in order
    change_angle_cooldown,     \* the flag last handed to the analyzer
    message_analysis,          \* the resolver result last consumed by a handler
    follow_up_analysis,        \* the escalation outcome last consumed by Provoke
    responder_calls,           \* generate_dynamic_manager_response calls made
                               \* by the handler last invoked
    resolver_calls,            \* analyze_manager_message calls made by it
    last_handler,              \* the handler last invoked
    handler_calls,             \* number of handler invocations so far
    iterations,                \* number of loop bodies entered so far
    iteration_start,           \* Len(all_statements) when the loop body was entered
    analysed,                  \* per iteration: validated temperature, or "none"
    v_raw,                     \* _validate_analysis: the raw argument
    v_result,                  \* _validate_analysis: outcome of the first call
    v_again                    \* _validate_analysis: outcome of the second call

vars == <<pc, panel_agents, min_rounds, original_max_rounds, analysis_frequency,
          intervention_threshold, max_rounds, current_round,
          consecutive_cold_rounds, consecutive_failed_rounds, last_round_type,
          last_change_angle_round, analysis, round_completed, all_statements,
          failing, response_generator, force_rebind_mocks, apologies,
          statements,
          initial_opinions_done, display, change_angle_cooldown,
          message_analysis, follow_up_analysis, responder_calls,
          resolver_calls, last_handler, handler_calls, iterations,
          iteration_start, analysed, v_raw, v_result, v_again>>

(***************************************************************************)
(* Bounds of the model.                                                    *)
(***************************************************************************)
MaxRoster == 2
MaxRounds == 2
MaxFrequency == 2
MaxPanels == 2

(***************************************************************************)
(* Vocabulary.                                                             *)
(***************************************************************************)
AllNames == <<"A", "B", "C", "D">>
Stranger == "X"
AllSentinel == "ALL"
Absent == "<absent>"
Null == "<null>"
NoRoundType == "<none>"

Range(s) == {s[i] : i \in DOMAIN s}

Min(a, b) == IF a <= b THEN a ELSE b

Max(a, b) == IF a >= b THEN a ELSE b

PanelAgent(n) == [name |-> n, is_human |-> FALSE]

\* PanelHuman(user_name, user_expertise): a Panel whose is_human is True
PanelHuman(n) == [name |-> n, is_human |-> TRUE]

UserName == "U"

RosterOfSize(n) == [i \in 1..n |-> PanelAgent(AllNames[i])]

\* the rosters of the given sizes
Rosters(sizes) == {RosterOfSize(n) : n \in sizes}

AgentNames(agents) == {agents[i].name : i \in DOMAIN agents}

(***************************************************************************)
(* _validate_analysis                                                      *)
(***************************************************************************)
valid_actions ==
    {"provoke_debate", "focus_clash", "change_angle", "pressure_evidence",
     "continue_normal"}

valid_temps == {"cold", "stuck", "neutral", "heated"}

TempMap(t) == IF t \in {"balanced", "normal"} THEN "neutral" ELSE t

\* dict(analysis or {}): None and {} both give the empty dict.
AsDict(raw) ==
    IF raw.kind = "none"
    THEN [kind |-> "dict", next_action |-> Absent, temperature |-> Absent,
          panels_kind |-> "absent", targeted_panels |-> <<>>,
          main_issue |-> Absent]
    ELSE raw

\* Line 1180 iterates out.get("targeted_panels", []): a key that is present
\* with the value None makes the comprehension raise TypeError.
ValidateRaises(raw) == AsDict(raw).panels_kind = "null"

FilterPanels(panels, agents) ==
    SelectSeq(panels, LAMBDA p : p \in AgentNames(agents))

ValidateAnalysis(raw, agents) ==
    LET out == AsDict(raw)
        temperature == TempMap(out.temperature)
    IN  [out EXCEPT
            !.next_action = IF out.next_action \in valid_actions
                            THEN out.next_action ELSE "continue_normal",
            !.temperature = IF temperature \in valid_temps
                            THEN temperature ELSE "neutral",
            !.panels_kind = "list",
            !.targeted_panels =
                IF out.panels_kind = "list"
                THEN FilterPanels(out.targeted_panels, agents) ELSE <<>>]

(***************************************************************************)
(* _temperature_leq_threshold                                              *)
(***************************************************************************)
order == <<"cold", "stuck", "neutral", "heated">>

OrderIndex(t) == CHOOSE i \in DOMAIN order : order[i] = t

\* order.index(th) raises ValueError for a threshold outside order, in the
\* try block and again in the except block, so the error leaves the function.
LeqThresholdRaises(temperature, threshold) ==
    TempMap(threshold) \notin Range(order)

TemperatureLeqThreshold(temperature, threshold) ==
    LET t == TempMap(temperature)
        th == TempMap(threshold)
    IN  IF t \in Range(order)
        THEN OrderIndex(t) <= OrderIndex(th)
        ELSE OrderIndex("neutral") <= OrderIndex(th)

(***************************************************************************)
(* Presenter and transcript.  A handler works on                           *)
(* S = [st, disp, done, responder, resolver, failing, apologies,           *)
(* statements, roster, generator, force_rebind]: st is                     *)
(* self.all_statements, disp the                                           *)
(* presenter                                                               *)
(* calls so far, done self._initial_opinions_done, responder and resolver  *)
(* the calls                                                               *)
(* made to the two collaborators, failing the agents whose completion call *)
(* raises, apologies the positions of st that hold the canned apology,     *)
(* statements the lists handed to respond_to_debate so far, roster the     *)
(* panel_agents list object the caller handed over, as it is now,          *)
(* generator the response generator in use, force_rebind whether           *)
(* _maybe_rebind_mocks replaces it.                                        *)
(***************************************************************************)
Statement(agent, stage, round_number) ==
    [agent_name |-> agent.name, stage |-> stage, round |-> round_number]

\* presenter.display_manager_message / display_round_complete; "at" is the
\* number of transcript entries at the time of the call.
Show(S, msg, round_number) ==
    [S EXCEPT !.disp = Append(@, [msg |-> msg, round |-> round_number,
                                  at |-> Len(S.st)])]

SpeakFirst(S, agent, stage, round_number) ==
    [S EXCEPT !.st = <<Statement(agent, stage, round_number)>> \o @]

GetResponseAlwaysReplies(S, agent) == "reply"

\* PanelAgent.get_response: the completion's text, or the apology line that
\* the except branch returns; a human participant types the reply
GetResponse(S, agent) ==
    IF ~agent.is_human /\ agent.name \in S.failing THEN "apology"
    ELSE "reply"

\* self.all_statements.append({...}) with the text the agent returned
Appended(S, agent, stage, round_number) ==
    LET S1 == [S EXCEPT !.st = Append(@, Statement(agent, stage,
                                                   round_number))]
    IN  IF GetResponse(S, agent) = "apology"
        THEN [S1 EXCEPT !.apologies = @ \cup {Len(S1.st)}]
        ELSE S1

\* stmt['content'] of the entry at position j: who said it and whether it
\* is a reply or the canned apology
Content(S, j) ==
    <<S.st[j].agent_name, IF j \in S.apologies THEN "apology" ELSE "reply">>

RecentStatements(S) ==
    LET n == Len(S.st)
    IN  [j \in 1..(IF n > 3 THEN 3 ELSE n) |->
            Content(S, j + (IF n > 3 THEN n - 3 ELSE 0))]

\* statements = [stmt['content'] for stmt in self.all_statements]
StatementsOf(S) == [j \in DOMAIN S.st |-> Content(S, j)]

\* statements = [...]; agent.respond_to_debate(context, statements);
\* self.all_statements.append(...)
Turn(S, agent, stage, round_number) ==
    LET passed == StatementsOf(S)
    IN  Appended([S EXCEPT !.statements =
                      Append(@, [turn |-> Len(S.st) + 1, list |-> passed])],
                 agent, stage, round_number)

\* one turn on the state the preceding calls left behind
Speak(S, agent, stage, round_number) ==
    CHOOSE after \in {Turn(before, agent, stage, round_number) :
                         before \in {S}} : TRUE

\* the ResponseGenerator of response_generator.py, built by the property
\* when none was handed to __init__
OwnGenerator == "ResponseGenerator"

\* an object handed to __init__ whose generate_dynamic_manager_response
\* takes the four arguments of the call
InjectedGenerator == "injected"

Generators == {OwnGenerator, InjectedGenerator}

\* ResponseGenerator.generate_dynamic_manager_response(self, context,
\* analysis, panel_agents) takes three arguments; every call of the
\* orchestrator passes round_number as a fourth, which raises TypeError
RespondRaises(S) == S.generator = OwnGenerator

\* _maybe_rebind_mocks (lines 69-73): with FORCE_REBIND_MOCKS set the
\* generator (and the presenter) handed to __init__ is dropped, and the
\* property builds the repository's own ResponseGenerator at the next use
MaybeRebindMocks(S) ==
    IF S.force_rebind THEN [S EXCEPT !.generator = OwnGenerator] ELSE S

\* self.response_generator.generate_dynamic_manager_response(context,
\* analysis, panel_agents, round_number): the call is made; it returns
\* unless RespondRaises
Respond(S) == [S EXCEPT !.responder = @ + 1]

\* self.response_generator.analyze_manager_message(...)
Resolve(S) == [S EXCEPT !.resolver = @ + 1]

RECURSIVE SpeakAll(_, _, _, _, _)
SpeakAll(S, panels, i, stage, round_number) ==
    IF i > Len(panels) THEN S
    ELSE SpeakAll(Speak(S, panels[i], stage, round_number), panels, i + 1,
                  stage, round_number)

\* a handler's return value and the state it leaves behind
Outcome(completed, S) == [completed |-> completed, S |-> S, raised |-> FALSE]

\* an exception leaves the handler: nothing is returned
Raise(S) == [completed |-> FALSE, S |-> S, raised |-> TRUE]

(***************************************************************************)
(* _conduct_normal_round                                                   *)
(***************************************************************************)
RECURSIVE NormalTurns(_, _, _, _, _)
NormalTurns(S, agents, i, round_number, has_analysis) ==
    IF i > Len(agents) THEN S
    ELSE LET msg == IF i = 1 /\ has_analysis THEN "integrated" ELSE "handoff"
             S1 == IF i = 1 /\ has_analysis THEN Respond(S) ELSE S
         IN  NormalTurns(Speak(Show(S1, msg, round_number), agents[i],
                               "normal", round_number),
                         agents, i + 1, round_number, has_analysis)

\* line 280 rebinds the collaborators; the call of lines 296-298 is the
\* first thing the first pass of the loop does when an analysis is given,
\* and its TypeError leaves the handler
NormalRound(S, round_number, agents, has_analysis) ==
    LET S0 == MaybeRebindMocks(S)
    IN  IF agents # <<>> /\ has_analysis /\ RespondRaises(S0)
        THEN Raise(Respond(S0))
        ELSE Outcome(TRUE, NormalTurns(S0, agents, 1, round_number,
                                       has_analysis))

(***************************************************************************)
(* Mapping of resolved names to agents (lines 369-375, 790-796, 452-458)   *)
(***************************************************************************)
FirstNamedOrGuest(agents, panel_name) ==
    LET hits == SelectSeq(agents, LAMBDA a : a.name = panel_name)
    IN  IF hits = <<>> THEN <<PanelAgent(panel_name)>> ELSE <<hits[1]>>

FirstNamed(agents, panel_name) ==
    LET hits == SelectSeq(agents, LAMBDA a : a.name = panel_name)
    IN  IF hits = <<>> THEN <<>> ELSE <<hits[1]>>

RECURSIVE MapTargets(_, _, _)
MapTargets(names, agents, i) ==
    IF i > Len(names) THEN <<>>
    ELSE FirstNamed(agents, names[i]) \o MapTargets(names, agents, i + 1)

UnresolvedOnlyWhenEmpty(targeted_panel_names) ==
    targeted_panel_names = <<>>

\* lines 361 and 782
Unresolved(targeted_panel_names) ==
    targeted_panel_names = <<>> \/ AllSentinel \in Range(targeted_panel_names)

(***************************************************************************)
(* _conduct_provoke_round                                                  *)
(***************************************************************************)
HasLongContent(follow_up) == follow_up.length > 50

\* lines 437-440: truthy, len(strip()) > 50 and one of the keywords
HasMeaningfulContent(follow_up) ==
    follow_up.length > 50 /\ follow_up.has_keyword

\* the follow-up turn whose respond_to_debate call raises, 0 for none
RaisingTurn(error) ==
    CASE error = "first_turn" -> 1 [] error = "second_turn" -> 2 [] OTHER -> 0

FollowUpTurnsAllOrNothing(S, follow_up_panels, i, round_number, error) ==
    IF RaisingTurn(error) \in 1..Len(follow_up_panels) THEN S
    ELSE SpeakAll(S, follow_up_panels, 1, "provoke_follow_up", round_number)

\* lines 464-482: the follow-up turns; an exception raised by a turn ends
\* the loop and is caught at line 489
RECURSIVE FollowUpTurns(_, _, _, _, _)
FollowUpTurns(S, follow_up_panels, i, round_number, error) ==
    IF i > Len(follow_up_panels) \/ i = RaisingTurn(error) THEN S
    ELSE FollowUpTurns(Speak(S, follow_up_panels[i], "provoke_follow_up",
                             round_number),
                       follow_up_panels, i + 1, round_number, error)

\* lines 420-493: the escalation step of the debate mode; the call of lines
\* 432-434 is inside the try block, so its error is caught at line 489
ProvokeEscalation(S, round_number, targeted_panels, follow_up) ==
    IF \/ RespondRaises(S)
       \/ follow_up.error = "responder"
       \/ ~HasMeaningfulContent(follow_up)
    THEN Respond(S)
    ELSE LET S1 == Resolve(Show(Respond(S), "follow_up", round_number))
             names == follow_up.targeted_panels
         IN  IF follow_up.error = "resolver" \/ Unresolved(names) THEN S1
             ELSE FollowUpTurns(S1,
                                MapTargets(SubSeq(names, 1, Min(2, Len(names))),
                                           targeted_panels, 1),
                                1, round_number, follow_up.error)

RECURSIVE ProvokeReactions(_, _, _, _, _)
ProvokeReactions(S, selected_others, i, round_number, panel) ==
    IF i > Len(selected_others) THEN S
    ELSE ProvokeReactions(
             Speak(Show(S, "handoff", round_number), selected_others[i],
                   "provoke_reaction", round_number),
             selected_others, i + 1, round_number, panel)

\* lines 523-578: only the first targeted panel answers, then up to two
\* others; other_panels is a new list, panel_agents keeps the speaker
ProvokeIndividual(S, round_number, agents, targeted_panels) ==
    LET panel == targeted_panels[1]
        other_panels == SelectSeq(agents, LAMBDA a : a.name # panel.name)
        selected_others ==
            SubSeq(other_panels, 1, Min(2, Len(other_panels)))
    IN  ProvokeReactions(Speak(S, panel, "provoke", round_number),
                         selected_others, 1, round_number, panel)

\* the call of lines 351-353 comes before the resolver is asked
ProvokeRound(S, round_number, agents, res, follow_up) ==
    IF RespondRaises(S) THEN Raise(Respond(S))
    ELSE IF res.error THEN Raise(Resolve(Respond(S)))
    ELSE IF Unresolved(res.targeted_panels)
    THEN Outcome(FALSE, Resolve(Respond(S)))
    ELSE LET S1 == Show(Resolve(Respond(S)), "moderator", round_number)
             targeted_panels == MapTargets(res.targeted_panels, agents, 1)
         IN  IF targeted_panels = <<>> THEN Outcome(FALSE, S1)
             ELSE IF res.response_type = "debate" \/ res.is_clash
             THEN Outcome(TRUE,
                      ProvokeEscalation(
                          SpeakAll(S1, targeted_panels, 1, "provoke",
                                   round_number),
                          round_number, targeted_panels, follow_up))
             ELSE IF res.response_type = "sequential"
             THEN Outcome(TRUE, SpeakAll(S1, targeted_panels, 1, "provoke",
                                         round_number))
             ELSE Outcome(TRUE, ProvokeIndividual(S1, round_number, agents,
                                                  targeted_panels))

(***************************************************************************)
(* _conduct_evidence_round                                                 *)
(***************************************************************************)
EvidenceRoundAllAnswer(S, round_number, agents, res) ==
    IF RespondRaises(S) THEN Raise(Respond(S))
    ELSE IF res.error THEN Raise(Resolve(Respond(S)))
    ELSE IF Unresolved(res.targeted_panels)
    THEN Outcome(FALSE, Resolve(Respond(S)))
    ELSE LET S1 == Show(Resolve(Respond(S)), "moderator", round_number)
             targeted_panels == MapTargets(res.targeted_panels, agents, 1)
         IN  IF targeted_panels = <<>> THEN Outcome(FALSE, S1)
             ELSE Outcome(TRUE, SpeakAll(S1, targeted_panels, 1, "evidence",
                                         round_number))

\* the call of lines 772-774 comes before the resolver is asked
EvidenceRound(S, round_number, agents, res) ==
    IF RespondRaises(S) THEN Raise(Respond(S))
    ELSE IF res.error THEN Raise(Resolve(Respond(S)))
    ELSE IF Unresolved(res.targeted_panels)
    THEN Outcome(FALSE, Resolve(Respond(S)))
    ELSE LET S1 == Show(Resolve(Respond(S)), "moderator", round_number)
             targeted_panels == MapTargets(res.targeted_panels, agents, 1)
         IN  IF targeted_panels = <<>> THEN Outcome(FALSE, S1)
             ELSE IF res.response_type = "debate" \/ res.is_clash
                     \/ res.response_type = "sequential"
             THEN Outcome(TRUE, SpeakAll(S1, targeted_panels, 1, "evidence",
                                         round_number))
             ELSE Outcome(TRUE, Speak(S1, targeted_panels[1], "evidence",
                                      round_number))

(***************************************************************************)
(* _conduct_clash_round                                                    *)
(***************************************************************************)
RECURSIVE ClashExtras(_, _, _, _)
ClashExtras(S, other_agents, i, round_number) ==
    IF i > Len(other_agents) THEN S
    ELSE ClashExtras(Speak(Show(S, "handoff", round_number), other_agents[i],
                           "clash_extra", round_number),
                     other_agents, i + 1, round_number)

ClashDuelInPlace(S, round_number, agents) ==
    IF RespondRaises(S) THEN Raise(Respond(S))
    ELSE LET agent1 == agents[1]
             agent2 == agents[2]
             other_agents == SubSeq(agents, 3, Len(agents))
             S0 == [S EXCEPT !.roster = other_agents]
             S1 == Speak(Show(Respond(S0), "challenge", round_number), agent1,
                         "clash", round_number)
             S2 == Speak(Show(S1, "handoff", round_number), agent2,
                         "clash", round_number)
             S3 == Speak(Show(S2, "handoff", round_number), agent1,
                         "clash", round_number)
         IN  IF other_agents = <<>> THEN Outcome(TRUE, S3)
             ELSE Outcome(TRUE, ClashExtras(Show(S3, "additional",
                                                 round_number),
                                            other_agents, 1, round_number))

\* lines 595-705: the duel of the first two roster entries; other_agents
\* is the slice panel_agents[2:], a new list; the call of lines 603-605
\* comes before anything is shown
ClashDuel(S, round_number, agents) ==
    IF RespondRaises(S) THEN Raise(Respond(S))
    ELSE LET agent1 == agents[1]
             agent2 == agents[2]
             other_agents == SubSeq(agents, 3, Len(agents))
             S1 == Speak(Show(Respond(S), "challenge", round_number), agent1,
                         "clash", round_number)
             S2 == Speak(Show(S1, "handoff", round_number), agent2,
                         "clash", round_number)
             S3 == Speak(Show(S2, "handoff", round_number), agent1,
                         "clash", round_number)
         IN  IF other_agents = <<>> THEN Outcome(TRUE, S3)
             ELSE Outcome(TRUE, ClashExtras(Show(S3, "additional",
                                                 round_number),
                                            other_agents, 1, round_number))

ClashRound(S, round_number, agents, has_analysis) ==
    IF Len(agents) >= 2
    THEN ClashDuel(S, round_number, agents)
    ELSE NormalRound(S, round_number, agents, has_analysis)

(***************************************************************************)
(* _conduct_angle_change_round                                             *)
(***************************************************************************)
RECURSIVE AngleTurns(_, _, _, _)
AngleTurns(S, agents, i, round_number) ==
    IF i > Len(agents) THEN S
    ELSE LET S0 == IF i = 1 THEN Respond(S) ELSE S
             S1 == Speak(Show(S0, IF i = 1 THEN "integrated" ELSE "handoff",
                              round_number),
                         agents[i], "angle", round_number)
             S2 == IF i < Len(agents)
                   THEN Show(S1, "next_speaker", round_number) ELSE S1
         IN  AngleTurns(S2, agents, i + 1, round_number)

\* the call of lines 723-725 is the first thing the first pass of the loop
\* does
AngleChangeRound(S, round_number, agents) ==
    IF agents # <<>> /\ RespondRaises(S) THEN Raise(Respond(S))
    ELSE Outcome(TRUE, AngleTurns(S, agents, 1, round_number))

(***************************************************************************)
(* _conduct_initial_opinions_stage                                         *)
(***************************************************************************)
RECURSIVE InitialTurns(_, _, _)
InitialTurns(S, agents, i) ==
    IF i > Len(agents) THEN S
    ELSE LET agent == agents[i]
             S1 == Show(S, "handoff", 0)
         IN  IF ~agent.is_human /\ agent.name \in S1.done
             THEN InitialTurns(S1, agents, i + 1)
             ELSE LET S2 == Appended(
                          [S1 EXCEPT !.done =
                              IF agent.is_human THEN @
                              ELSE @ \cup {agent.name}],
                          agent, "initial", 0)
                      S3 == IF i < Len(agents)
                            THEN Show(S2, "next_speaker", 0) ELSE S2
                  IN  InitialTurns(S3, agents, i + 1)

\* line 984 rebinds the collaborators
InitialOpinionsStage(S, agents) ==
    InitialTurns(Show(MaybeRebindMocks(S), "stage1", 0), agents, 1)

(***************************************************************************)
(* add_user_as_panelist                                                    *)
(***************************************************************************)
\* random.Random.randint(a, b) returns an integer N with a <= N <= b
RandInt(a, b) == a..b

\* list.insert(i, x) for 0 <= i <= len(list)
ListInsert(list, i, x) ==
    SubSeq(list, 1, i) \o <<x>> \o SubSeq(list, i + 1, Len(list))

InsertPositionsAnywhere(agents) == 0..Len(agents)

\* lines 1140-1145: the values insert_position can take
InsertPositions(agents) ==
    IF Len(agents) > 1 THEN RandInt(1, Len(agents) - 1) ELSE {Len(agents)}

(***************************************************************************)
(* Inputs: what the collaborators may return.                              *)
(***************************************************************************)
RawDict(next_action, temperature, panels_kind, targeted_panels) ==
    [kind |-> "dict", next_action |-> next_action,
     temperature |-> temperature, panels_kind |-> panels_kind,
     targeted_panels |-> targeted_panels, main_issue |-> "issue"]

RawNone ==
    [kind |-> "none", next_action |-> Absent, temperature |-> Absent,
     panels_kind |-> "absent", targeted_panels |-> <<>>,
     main_issue |-> Absent]

\* the chat completion call inside analyze_debate_state raises
AnalyzerError == [RawNone EXCEPT !.kind = "error"]

\* the dict of the except branch: it has no targeted_panels key
AnalyzerDefault ==
    [RawDict("continue_normal", "balanced", "absent", <<>>)
        EXCEPT !.main_issue = "general"]

\* analyze_debate_state: the parsed reply, or the default when anything in
\* the try block raised
AnalyzeDebateState(reply) ==
    IF reply.kind = "error" THEN AnalyzerDefault ELSE reply

\* analyzer outputs offered to the dispatcher
DispatchAnalyses ==
    {RawNone,
     RawDict("provoke_debate", "cold", "list", <<"A", Stranger>>),
     RawDict("pressure_evidence", "heated", "absent", <<>>),
     RawDict("focus_clash", "stuck", "absent", <<>>),
     RawDict("change_angle", "balanced", "absent", <<>>),
     RawDict("continue_normal", "heated", "list", <<>>),
     RawDict("summarize", "lukewarm", "null", <<>>)}

\* what analyze_manager_message does: it returns a dict (error FALSE) or
\* raises (error TRUE, and there is no dict)
Resolution(targeted_panels, response_type, is_clash) ==
    [targeted_panels |-> targeted_panels, response_type |-> response_type,
     is_clash |-> is_clash, error |-> FALSE]

ResolverError == [Resolution(<<>>, "free", FALSE) EXCEPT !.error = TRUE]

\* error: "none", or the call of the escalation step that raises
FollowUp(length, has_keyword, targeted_panels, error) ==
    [length |-> length, has_keyword |-> has_keyword,
     targeted_panels |-> targeted_panels, error |-> error]

NoFollowUp == FollowUp(0, FALSE, <<>>, "none")

\* resolver outputs offered inside a dispatcher run
DispatchResolutions ==
    {Resolution(<<>>, "free", FALSE),
     Resolution(<<Stranger>>, "individual", FALSE),
     Resolution(<<"B", "A">>, "sequential", FALSE),
     ResolverError}

SeqsUpTo(S, n) == UNION {[1..k -> S] : k \in 0..n}

\* the names a resolver result can hold: every name a roster of the handler
\* calls can hold, the inserted user, a name of no participant, the sentinel
TargetSymbols ==
    {AllNames[i] : i \in 1..(MaxRoster + 1)}
        \cup {UserName, Stranger, AllSentinel}

\* resolver outputs offered to a handler that is called directly
AllResolutions ==
    {Resolution(t, r, c) : t \in SeqsUpTo(TargetSymbols, MaxPanels),
                           r \in {"debate", "sequential", "individual", "free"},
                           c \in BOOLEAN}
    \cup {ResolverError}

\* names a second resolution can hold
FollowUpSymbols == {"A", "B", "C", UserName, AllSentinel}

\* outcomes of the second responder call and of the second resolution; the
\* second resolution is asked for only when the text is meaningful, so for
\* the other texts one resolver that would name nobody and one that would
\* name B and A are enough
AllFollowUps ==
    {FollowUp(l, k, t, "none") : l \in {50, 51}, k \in BOOLEAN,
                                 t \in {<<>>, <<"B", "A">>}}
    \cup {FollowUp(51, TRUE, t, "none") : t \in SeqsUpTo(FollowUpSymbols, 2)}
    \cup {FollowUp(51, TRUE, <<"B", "A", "B">>, "none"),
          FollowUp(0, FALSE, <<>>, "responder"),
          FollowUp(51, TRUE, <<"A">>, "resolver"),
          FollowUp(51, TRUE, <<"B", "A">>, "first_turn"),
          FollowUp(51, TRUE, <<"B", "A">>, "second_turn")}

\* the agents whose completion call raises, where failures are offered
Failures == {{}, {"A"}, {"B"}}

\* the escalation outcomes offered when some agent's completion call raises
FailingFollowUps ==
    {NoFollowUp, FollowUp(51, TRUE, <<"B", "A">>, "none")}

Thresholds == Range(order) \cup {"lukewarm"}

(***************************************************************************)
(* Construction (__init__) and the configuration it is given.              *)
(***************************************************************************)
InitState(start_pc, rosters, rounds, frequencies, thresholds, raws, failures) ==
    /\ pc = start_pc
    /\ panel_agents \in rosters
    /\ min_rounds \in rounds
    /\ original_max_rounds \in rounds
    /\ analysis_frequency \in frequencies
    /\ intervention_threshold \in thresholds
    /\ max_rounds = 0
    /\ current_round = 0
    /\ consecutive_cold_rounds = 0
    /\ consecutive_failed_rounds = 0
    /\ last_round_type = NoRoundType
    /\ last_change_angle_round = -10
    /\ analysis = <<>>
    /\ round_completed = FALSE
    /\ all_statements = <<>>
    /\ failing \in failures
    /\ response_generator \in Generators
    /\ force_rebind_mocks \in BOOLEAN
    /\ apologies = {}
    /\ statements = <<>>
    /\ initial_opinions_done = {}
    /\ display = <<>>
    /\ change_angle_cooldown = FALSE
    /\ message_analysis = Resolution(<<>>, "free", FALSE)
    /\ follow_up_analysis = NoFollowUp
    /\ responder_calls = 0
    /\ resolver_calls = 0
    /\ last_handler = NoRoundType
    /\ handler_calls = 0
    /\ iterations = 0
    /\ iteration_start = 0
    /\ analysed = <<>>
    /\ v_raw \in raws
    /\ v_result = [raised |-> FALSE, value |-> RawNone]
    /\ v_again = [raised |-> FALSE, value |-> RawNone]

Init ==
    InitState("init", Rosters({MaxRoster}), 1..MaxRounds, 1..MaxFrequency, Thresholds,
              {RawNone}, {{}})

Now ==
    [st |-> all_statements, disp |-> display, done |-> initial_opinions_done,
     responder |-> 0, resolver |-> 0, failing |-> failing,
     apologies |-> apologies, statements |-> statements,
     roster |-> panel_agents, generator |-> response_generator,
     force_rebind |-> force_rebind_mocks]

\* the settings read at lines 180-184 and the failing completion calls
configVars ==
    <<min_rounds, original_max_rounds, analysis_frequency,
      intervention_threshold, failing, force_rebind_mocks>>

callVars == <<follow_up_analysis, responder_calls, resolver_calls>>

validateVars == <<v_raw, v_result, v_again>>

\* the effect of one handler invocation on the transcript and the presenter
Ran(handler, out) ==
    /\ all_statements' = out.S.st
    /\ apologies' = out.S.apologies
    /\ statements' = out.S.statements
    /\ panel_agents' = out.S.roster
    /\ response_generator' = out.S.generator
    /\ display' = out.S.disp
    /\ last_handler' = handler
    /\ handler_calls' = handler_calls + 1
    /\ responder_calls' = out.S.responder
    /\ resolver_calls' = out.S.resolver

(***************************************************************************)
(* conduct_dynamic_debate                                                  *)
(***************************************************************************)
\* lines 167-198
StartDynamicDebate ==
    /\ pc = "init"
    /\ LET S0 == [Show(MaybeRebindMocks(Now), "debate_start", 0) EXCEPT
                      !.st = <<>>, !.apologies = {}, !.statements = <<>>]
           S1 == Show(InitialOpinionsStage(S0, panel_agents), "stage2", 0)
       IN  /\ all_statements' = S1.st
           /\ apologies' = S1.apologies
           /\ statements' = S1.statements
           /\ panel_agents' = S1.roster
           /\ response_generator' = S1.generator
           /\ display' = S1.disp
           /\ initial_opinions_done' = S1.done
    /\ max_rounds' = original_max_rounds
    /\ current_round' = 0
    /\ consecutive_cold_rounds' = 0
    /\ consecutive_failed_rounds' = 0
    /\ last_round_type' = NoRoundType
    /\ last_change_angle_round' = -10
    /\ pc' = "loop"
    /\ UNCHANGED <<configVars, validateVars, analysis, round_completed,
                   change_angle_cooldown, message_analysis, callVars, last_handler,
                   handler_calls, iterations, iteration_start, analysed>>

\* line 205
AnalysisDue(round_number) ==
    round_number % analysis_frequency = 0 \/ round_number = 1

CooldownWindowOfTwo(round_number) ==
    round_number < 3 \/ round_number - last_change_angle_round < 2

\* line 208
Cooldown(round_number) ==
    round_number < 3 \/ round_number - last_change_angle_round < 3

\* line 209 is in no try block: the try block that substitutes the default
\* is inside ResponseGenerator.analyze_debate_state, so the error of an
\* injected analyzer leaves conduct_dynamic_debate with analysis = None
AnalyzerRaises(reply) ==
    reply.kind = "error" /\ response_generator = InjectedGenerator

\* lines 200-217: loop test, round increment and the periodic analysis; an
\* error of line 209 or 210 comes before line 217 resets round_completed,
\* and line 210 leaves the raw reply in analysis
BeginRound ==
    /\ pc = "loop"
    /\ current_round < max_rounds
    /\ current_round' = current_round + 1
    /\ iterations' = iterations + 1
    /\ iteration_start' = Len(all_statements)
    /\ IF AnalysisDue(current_round + 1)
       THEN /\ change_angle_cooldown' = Cooldown(current_round + 1)
            /\ \E reply \in DispatchAnalyses \cup {AnalyzerError} :
                 LET raw == AnalyzeDebateState(reply) IN
                 IF AnalyzerRaises(reply)
                 THEN /\ pc' = "raised"
                      /\ analysis' = <<>>
                      /\ UNCHANGED <<analysed, round_completed>>
                 ELSE IF ValidateRaises(raw)
                 THEN /\ pc' = "raised"
                      /\ analysis' = <<raw>>
                      /\ UNCHANGED <<analysed, round_completed>>
                 ELSE /\ analysis' = <<ValidateAnalysis(raw, panel_agents)>>
                      /\ analysed' = Append(analysed,
                             ValidateAnalysis(raw, panel_agents).temperature)
                      /\ round_completed' = FALSE
                      /\ pc' = "dispatch"
       ELSE /\ analysis' = <<>>
            /\ analysed' = Append(analysed, "none")
            /\ round_completed' = FALSE
            /\ pc' = "dispatch"
            /\ UNCHANGED change_angle_cooldown
    /\ UNCHANGED <<panel_agents, response_generator, configVars, validateVars, max_rounds,
                   consecutive_cold_rounds, consecutive_failed_rounds,
                   last_round_type, last_change_angle_round, all_statements,
                   apologies, statements,
                   initial_opinions_done, display, message_analysis, callVars,
                   last_handler, handler_calls>>

\* line 200: the loop test fails
ExitLoop ==
    /\ pc = "loop"
    /\ current_round >= max_rounds
    /\ pc' = "done"
    /\ UNCHANGED <<panel_agents, response_generator, configVars, validateVars, max_rounds, current_round,
                   consecutive_cold_rounds, consecutive_failed_rounds,
                   last_round_type, last_change_angle_round, analysis,
                   round_completed, all_statements, apologies, statements,
                   initial_opinions_done,
                   display, change_angle_cooldown, message_analysis, callVars,
                   last_handler, handler_calls, iterations, iteration_start,
                   analysed>>

NextAction == IF analysis = <<>> THEN "none" ELSE analysis[1].next_action

dispatchFrame ==
    <<configVars, validateVars, max_rounds, current_round,
      consecutive_cold_rounds, consecutive_failed_rounds, analysis,
      initial_opinions_done, change_angle_cooldown, iterations,
      iteration_start, analysed>>

\* "round_completed = self._conduct_...(...)" and the assignment of
\* last_round_type after it; neither happens when the handler raises, and
\* the exception leaves conduct_dynamic_debate
Assigned(out, round_type) ==
    IF out.raised
    THEN /\ pc' = "raised"
         /\ UNCHANGED <<round_completed, last_round_type>>
    ELSE /\ pc' = "completion"
         /\ round_completed' = out.completed
         /\ last_round_type' = round_type

\* the resolver results a handler can consume: when the responder call
\* before it raises the resolver is not asked and message_analysis keeps
\* its value
Resolutions(offered) ==
    IF RespondRaises(Now) THEN {message_analysis} ELSE offered

\* the escalation outcomes a Provoke round can consume: none when its
\* first responder call raises
FollowUps(offered) ==
    IF RespondRaises(Now) THEN {follow_up_analysis} ELSE offered

\* the escalation step is reached in the debate mode only, after the
\* targeted participants have spoken (lines 361, 380 and 383)
EscalationOutcomes(res, offered) ==
    IF \/ res.error
       \/ Unresolved(res.targeted_panels)
       \/ MapTargets(res.targeted_panels, panel_agents, 1) = <<>>
       \/ ~(res.response_type = "debate" \/ res.is_clash)
    THEN FollowUps({NoFollowUp}) ELSE FollowUps(offered)

\* lines 218-220
ConductProvokeRound ==
    /\ pc = "dispatch"
    /\ NextAction = "provoke_debate"
    /\ \E res \in Resolutions(DispatchResolutions) :
         LET out == ProvokeRound(Now, current_round, panel_agents, res,
                                 NoFollowUp)
         IN  /\ Ran("provoke_debate", out)
             /\ message_analysis' = res
             /\ follow_up_analysis' = NoFollowUp
             /\ Assigned(out, "provoke_debate")
    /\ UNCHANGED <<dispatchFrame, last_change_angle_round>>

\* lines 221-223
ConductClashRound ==
    /\ pc = "dispatch"
    /\ NextAction = "focus_clash"
    /\ LET out == ClashRound(Now, current_round, panel_agents, TRUE)
       IN  /\ Ran("focus_clash", out)
           /\ Assigned(out, "focus_clash")
    /\ UNCHANGED <<dispatchFrame, last_change_angle_round, message_analysis,
                   follow_up_analysis>>

\* lines 224-227
ConductAngleChangeRound ==
    /\ pc = "dispatch"
    /\ NextAction = "change_angle"
    /\ LET out == AngleChangeRound(Now, current_round, panel_agents)
       IN  /\ Ran("change_angle", out)
           /\ Assigned(out, "change_angle")
           /\ last_change_angle_round' =
                  IF out.raised THEN last_change_angle_round
                  ELSE current_round
    /\ UNCHANGED <<dispatchFrame, message_analysis, follow_up_analysis>>

\* lines 228-230
ConductEvidenceRound ==
    /\ pc = "dispatch"
    /\ NextAction = "pressure_evidence"
    /\ \E res \in Resolutions(DispatchResolutions) :
         LET out == EvidenceRound(Now, current_round, panel_agents, res)
         IN  /\ Ran("pressure_evidence", out)
             /\ message_analysis' = res
             /\ UNCHANGED follow_up_analysis
             /\ Assigned(out, "pressure_evidence")
    /\ UNCHANGED <<dispatchFrame, last_change_angle_round>>

\* lines 231-234
ConductNormalRound ==
    /\ pc = "dispatch"
    /\ NextAction \in {"continue_normal", "none"}
    /\ LET out == NormalRound(Now, current_round, panel_agents,
                              analysis # <<>>)
       IN  /\ Ran("continue_normal", out)
           /\ Assigned(out, "continue_normal")
    /\ UNCHANGED <<dispatchFrame, last_change_angle_round, message_analysis,
                   follow_up_analysis>>

completionFrame ==
    <<configVars, validateVars, max_rounds, consecutive_cold_rounds,
      last_change_angle_round, analysis, round_completed,
      initial_opinions_done, change_angle_cooldown, message_analysis, follow_up_analysis,
      iterations, iteration_start, analysed>>

RollBackRoundKeepsRound ==
    /\ pc = "completion"
    /\ ~round_completed
    /\ consecutive_failed_rounds' = consecutive_failed_rounds + 1
    /\ pc' = "fallback"
    /\ UNCHANGED <<panel_agents, response_generator, completionFrame, current_round, last_round_type,
                   all_statements, apologies, statements, display, last_handler,
                   handler_calls, responder_calls, resolver_calls>>

\* lines 237-241: the handler did not complete; the round number is rolled back
RollBackRound ==
    /\ pc = "completion"
    /\ ~round_completed
    /\ current_round' = current_round - 1
    /\ consecutive_failed_rounds' = consecutive_failed_rounds + 1
    /\ pc' = "fallback"
    /\ UNCHANGED <<panel_agents, response_generator, completionFrame, last_round_type, all_statements,
                   apologies, statements, display,
                   last_handler, handler_calls, responder_calls,
                   resolver_calls>>

ForcedNormalRoundSkipped ==
    /\ pc = "fallback"
    /\ current_round' = current_round + 1
    /\ Ran("forced_normal",
           Outcome(TRUE, Show(Now, "round_complete", current_round + 1)))
    /\ consecutive_failed_rounds' = 0
    /\ last_round_type' = "forced_normal"
    /\ pc' = "policy"
    /\ UNCHANGED completionFrame

ForcedNormalRoundNoReset ==
    /\ pc = "fallback"
    /\ current_round' = current_round + 1
    /\ LET out == NormalRound(Now, current_round + 1, panel_agents,
                              analysis # <<>>)
       IN  IF out.raised
           THEN /\ Ran("forced_normal", out)
                /\ pc' = "raised"
                /\ UNCHANGED last_round_type
           ELSE /\ Ran("forced_normal",
                       Outcome(TRUE, Show(out.S, "round_complete",
                                          current_round + 1)))
                /\ last_round_type' = "forced_normal"
                /\ pc' = "policy"
    /\ UNCHANGED <<completionFrame, consecutive_failed_rounds>>

\* lines 243-248: the round number is restored and a Normal round is forced
ForcedNormalRound ==
    /\ pc = "fallback"
    /\ current_round' = current_round + 1
    /\ LET out == NormalRound(Now, current_round + 1, panel_agents,
                              analysis # <<>>)
       IN  IF out.raised
           THEN /\ Ran("forced_normal", out)
                /\ pc' = "raised"
                /\ UNCHANGED <<consecutive_failed_rounds, last_round_type>>
           ELSE /\ Ran("forced_normal",
                       Outcome(TRUE, Show(out.S, "round_complete",
                                          current_round + 1)))
                /\ consecutive_failed_rounds' = 0
                /\ last_round_type' = "forced_normal"
                /\ pc' = "policy"
    /\ UNCHANGED completionFrame

\* lines 249-252
RoundCompleted ==
    /\ pc = "completion"
    /\ round_completed
    /\ consecutive_failed_rounds' = 0
    /\ display' = Show(Now, "round_complete", current_round).disp
    /\ pc' = "policy"
    /\ UNCHANGED <<panel_agents, response_generator, completionFrame, current_round, last_round_type,
                   all_statements, apologies, statements, last_handler, handler_calls,
                   responder_calls, resolver_calls>>

Heated == analysis # <<>> /\ analysis[1].temperature = "heated"

ExtensionCapDoubled == original_max_rounds * 2

\* int(original_max_rounds * 1.5)
ExtensionCap == (original_max_rounds * 3) \div 2

ColdReadingWithoutAnalysis ==
    \/ analysis = <<>>
    \/ TemperatureLeqThreshold(analysis[1].temperature, intervention_threshold)

\* line 255
ColdReading ==
    /\ analysis # <<>>
    /\ TemperatureLeqThreshold(analysis[1].temperature, intervention_threshold)

\* line 257, with the counter already incremented
ShouldEndEarlyWithoutMin(cold_rounds) ==
    cold_rounds >= 2

ShouldEndEarly(cold_rounds) ==
    cold_rounds >= 2 /\ current_round >= min_rounds

\* lines 270-271
ShouldExtendInclusive ==
    Heated /\ current_round = max_rounds /\ max_rounds <= ExtensionCap

ShouldExtend ==
    Heated /\ current_round = max_rounds /\ max_rounds < ExtensionCap

\* lines 260-263 and 273-276: the responder is asked for the message and
\* the message is shown; the TypeError of the call leaves
\* conduct_dynamic_debate with nothing shown
Said(msg, next_pc) ==
    IF RespondRaises(Now)
    THEN pc' = "raised" /\ UNCHANGED display
    ELSE pc' = next_pc /\ display' = Show(Now, msg, current_round).disp

\* lines 254-276: early termination and extension
TerminationPolicy ==
    /\ pc = "policy"
    /\ IF analysis # <<>>
          /\ LeqThresholdRaises(analysis[1].temperature, intervention_threshold)
       THEN /\ pc' = "raised"
            /\ UNCHANGED <<consecutive_cold_rounds, max_rounds, display>>
       ELSE /\ consecutive_cold_rounds' =
                   IF ColdReading THEN consecutive_cold_rounds + 1 ELSE 0
            /\ IF ColdReading /\ ShouldEndEarly(consecutive_cold_rounds + 1)
               THEN /\ Said("closing", "done")
                    /\ UNCHANGED max_rounds
               ELSE IF ShouldExtend
               THEN /\ max_rounds' = max_rounds + 1
                    /\ Said("extension", "loop")
               ELSE /\ pc' = "loop"
                    /\ UNCHANGED <<max_rounds, display>>
    /\ UNCHANGED <<panel_agents, response_generator, configVars, validateVars, current_round,
                   consecutive_failed_rounds, last_round_type,
                   last_change_angle_round, analysis, round_completed,
                   all_statements, apologies, statements, initial_opinions_done,
                   change_angle_cooldown, message_analysis, callVars, last_handler,
                   handler_calls, iterations, iteration_start, analysed>>

Next ==
    \/ StartDynamicDebate
    \/ BeginRound
    \/ ExitLoop
    \/ ConductProvokeRound
    \/ ConductClashRound
    \/ ConductAngleChangeRound
    \/ ConductEvidenceRound
    \/ ConductNormalRound
    \/ RollBackRound
    \/ ForcedNormalRound
    \/ RoundCompleted
    \/ TerminationPolicy

Spec == Init /\ [][Next]_vars

\* the loop is sequential code: whatever step is enabled is eventually taken
FairSpec == Spec /\ WF_vars(Next)

(***************************************************************************)
(* conduct_dynamic_debate on a roster of four with debate_rounds 2 and the *)
(* default dynamic settings: max_rounds 6, analysis_frequency 2,           *)
(* intervention_threshold cold.                                            *)
(***************************************************************************)
InitScenario ==
    /\ InitState("init", Rosters({4}), {2, 6}, {2}, {"cold"}, {RawNone}, {{}})
    /\ min_rounds = 2
    /\ original_max_rounds = 6

SpecScenario == InitScenario /\ [][Next]_vars

(***************************************************************************)
(* conduct_dynamic_debate with one participant, longer debates and an      *)
(* analysis that is not due every round.                                   *)
(***************************************************************************)
InitSparse ==
    InitState("init", Rosters({1}), 1..(2 * MaxRounds), 2..(MaxFrequency + 1),
              Thresholds, {RawNone}, {{}})

SpecSparse == InitSparse /\ [][Next]_vars

(***************************************************************************)
(* conduct_dynamic_debate with one participant, an analysis in every round *)
(* and debate_rounds below, at and above max_rounds and its extension.     *)
(***************************************************************************)
InitDense ==
    /\ InitState("init", Rosters({1}), 1..(2 * MaxRounds), {1},
                 {"cold", "heated"}, {RawNone}, {{}})
    /\ original_max_rounds = MaxRounds + 1

SpecDense == InitDense /\ [][Next]_vars

(***************************************************************************)
(* conduct_static_debate on a constructed orchestrator; current_round      *)
(* holds turn + 1 of _conduct_discussion_stage.                            *)
(***************************************************************************)
InitStatic ==
    InitState("static", Rosters(0..(MaxRoster + 1)), 0..MaxRounds, {1}, {"cold"},
              {RawNone}, Failures)

staticFrame ==
    <<configVars, validateVars, max_rounds, consecutive_cold_rounds,
      consecutive_failed_rounds, last_round_type, last_change_angle_round,
      analysis, round_completed, change_angle_cooldown, message_analysis,
      callVars, last_handler, handler_calls, iterations, iteration_start,
      analysed>>

\* lines 141-162 and 1027-1031: start message, transcript reset, stage 1,
\* and the announcement of stage 2
StartStaticDebate ==
    /\ pc = "static"
    /\ LET S0 == [Show(MaybeRebindMocks(Now), "debate_start", 0) EXCEPT
                      !.st = <<>>, !.apologies = {}, !.statements = <<>>]
           S1 == Show(InitialOpinionsStage(S0, panel_agents), "stage2", 0)
       IN  /\ all_statements' = S1.st
           /\ apologies' = S1.apologies
           /\ statements' = S1.statements
           /\ panel_agents' = S1.roster
           /\ response_generator' = S1.generator
           /\ display' = S1.disp
           /\ initial_opinions_done' = S1.done
    /\ current_round' = 0
    /\ pc' = "discussion"
    /\ UNCHANGED staticFrame

\* lines 1040-1071: the turns of one round of the discussion stage
RECURSIVE DiscussionTurns(_, _, _, _)
DiscussionTurns(S, agents, i, round_number) ==
    IF i > Len(agents) THEN S
    ELSE LET S1 == Speak(Show(S, "handoff", round_number), agents[i],
                         "discussion", round_number)
             S2 == IF i < Len(agents)
                   THEN Show(S1, "next_speaker", round_number) ELSE S1
         IN  DiscussionTurns(S2, agents, i + 1, round_number)

DiscussionRoundFirstOnly(S, agents, round_number) ==
    DiscussionTurns(Show(S, "round_start", round_number),
                    IF agents = <<>> THEN agents ELSE <<agents[1]>>, 1,
                    round_number)

\* lines 1033-1071: one pass of "for turn in range(self.debate_rounds)"
DiscussionRound(S, agents, round_number) ==
    DiscussionTurns(Show(S, "round_start", round_number), agents, 1,
                    round_number)

ConductDiscussionRound ==
    /\ pc = "discussion"
    /\ current_round < min_rounds
    /\ current_round' = current_round + 1
    /\ LET S1 == DiscussionRound(Now, panel_agents, current_round + 1)
       IN  /\ all_statements' = S1.st
           /\ apologies' = S1.apologies
           /\ statements' = S1.statements
           /\ panel_agents' = S1.roster
           /\ response_generator' = S1.generator
           /\ display' = S1.disp
    /\ UNCHANGED <<staticFrame, pc, initial_opinions_done>>

\* line 1033: range(self.debate_rounds) is exhausted
EndStaticDebate ==
    /\ pc = "discussion"
    /\ current_round >= min_rounds
    /\ pc' = "static_done"
    /\ UNCHANGED <<panel_agents, response_generator, staticFrame, current_round, all_statements, apologies, statements,
                   display, initial_opinions_done>>

NextStatic ==
    \/ StartStaticDebate
    \/ ConductDiscussionRound
    \/ EndStaticDebate

SpecStatic == InitStatic /\ [][NextStatic]_vars

(***************************************************************************)
(* conduct_static_debate called again on the same orchestrator, and on a   *)
(* roster two of whose participants carry the same name.                   *)
(***************************************************************************)
MaxRuns == 2

\* two AI participants configured with the same name
SharedNameRoster == <<PanelAgent(AllNames[1]), PanelAgent(AllNames[1])>>

InitRerun ==
    InitState("static", Rosters(0..(MaxRoster + 1)) \cup {SharedNameRoster},
              0..MaxRounds, {1}, {"cold"}, {RawNone}, Failures)

\* the caller invokes conduct_static_debate once more: __init__ is not run
\* again, so self._initial_opinions_done keeps its members
RunAgain ==
    /\ pc = "static_done"
    /\ Cardinality({i \in DOMAIN display : display[i].msg = "debate_start"})
          < MaxRuns
    /\ pc' = "static"
    /\ UNCHANGED <<panel_agents, response_generator, staticFrame, current_round, all_statements, apologies,
                   statements, display, initial_opinions_done>>

NextRerun ==
    \/ StartStaticDebate
    \/ ConductDiscussionRound
    \/ EndStaticDebate
    \/ RunAgain

SpecRerun == InitRerun /\ [][NextRerun]_vars

(***************************************************************************)
(* A whole session, in the order DebateManager calls the public methods:   *)
(* announce_debate_format, introduce_panels, conduct_debate and            *)
(* conclude_debate; each of them can also be called without the ones      *)
(* before it.                                                              *)
(***************************************************************************)
InitSession ==
    InitState("session", Rosters(1..MaxRoster), 1..MaxRounds, 1..MaxFrequency,
              Thresholds, {RawNone}, {{}})

\* the positions at which no method of the orchestrator is running and
\* conclude_debate has not been called
AtRest ==
    {"session", "announced", "introduced", "idle", "returned", "done",
     "static_done"}

sessionFrame ==
    <<panel_agents, staticFrame, current_round, all_statements, apologies,
      statements, initial_opinions_done>>

\* lines 90-100: the briefing is streamed by the generator; the manager's
\* start message is shown
AnnounceDebateFormat ==
    /\ pc = "session"
    /\ display' = Show(Now, "debate_start", 0).disp
    /\ response_generator' = MaybeRebindMocks(Now).generator
    /\ pc' = "announced"
    /\ UNCHANGED sessionFrame

\* lines 112-126: agent.introduce() and, after every panel but the last,
\* the transition message
RECURSIVE Introductions(_, _, _)
Introductions(S, agents, i) ==
    IF i > Len(agents) THEN S
    ELSE Introductions(IF i < Len(agents)
                       THEN Show(S, "panel_transition", 0) ELSE S,
                       agents, i + 1)

\* lines 102-126
IntroducePanels ==
    /\ pc \in {"session", "announced"}
    /\ display' = Introductions(Show(Now, "panel_intro", 0), panel_agents,
                                1).disp
    /\ response_generator' = MaybeRebindMocks(Now).generator
    /\ pc' = "introduced"
    /\ UNCHANGED sessionFrame

\* lines 131-139: config['debate'].get('mode', 'static') selects the method
ConductDebate ==
    /\ pc \in {"session", "announced", "introduced"}
    /\ \E debate_mode \in {"static", "dynamic"} :
         pc' = IF debate_mode = "dynamic" THEN "init" ELSE "static"
    /\ response_generator' = MaybeRebindMocks(Now).generator
    /\ UNCHANGED <<sessionFrame, display>>

\* lines 1091-1118: hand-off, agent.final_statement(...) whose reply is not
\* appended to self.all_statements, and the announcement of the next speaker
RECURSIVE FinalOpinions(_, _, _)
FinalOpinions(S, agents, i) ==
    IF i > Len(agents) THEN S
    ELSE LET S1 == Show(S, "handoff", 0)
             S2 == IF i < Len(agents) THEN Show(S1, "next_speaker", 0)
                   ELSE S1
         IN  FinalOpinions(S2, agents, i + 1)

\* lines 1073-1133
ConcludeDebate ==
    /\ pc \in AtRest
    /\ LET S1 == Show(Show(Now, "conclude", 0), "final_opinions", 0)
           S2 == FinalOpinions(S1, panel_agents, 1)
       IN  display' = Show(Show(S2, "conclusion", 0), "farewell", 0).disp
    /\ response_generator' = MaybeRebindMocks(Now).generator
    /\ pc' = "concluded"
    /\ UNCHANGED sessionFrame

NextSession ==
    \/ AnnounceDebateFormat
    \/ IntroducePanels
    \/ ConductDebate
    \/ ConcludeDebate
    \/ Next
    \/ NextStatic

SpecSession == InitSession /\ [][NextSession]_vars

(***************************************************************************)
(* A round handler called directly on a constructed orchestrator, as the   *)
(* unit tests do, with every resolver result of the bounded vocabulary.    *)
(***************************************************************************)
InitRound ==
    InitState("idle", Rosters(0..(MaxRoster + 1)), {1}, {1}, {"cold"}, {RawNone},
              Failures)

\* add_user_as_panelist(panel_agents, user_name, user_expertise) on a roster
\* that holds no user yet
AddUserAsPanelist ==
    /\ pc = "idle"
    /\ handler_calls = 0
    /\ all_statements = <<>>
    /\ UserName \notin AgentNames(panel_agents)
    /\ \E insert_position \in InsertPositions(panel_agents) :
         panel_agents' = ListInsert(panel_agents, insert_position,
                                    PanelHuman(UserName))
    /\ UNCHANGED <<min_rounds, original_max_rounds, analysis_frequency,
                   intervention_threshold, failing, response_generator,
                   force_rebind_mocks, validateVars, max_rounds,
                   current_round, consecutive_cold_rounds,
                   consecutive_failed_rounds, last_round_type,
                   last_change_angle_round, analysis, round_completed,
                   all_statements, apologies, statements, initial_opinions_done, display,
                   change_angle_cooldown, message_analysis, callVars,
                   last_handler, handler_calls, iterations, iteration_start,
                   analysed, pc>>

roundFrame ==
    <<configVars, validateVars, max_rounds, consecutive_cold_rounds,
      consecutive_failed_rounds, last_round_type, last_change_angle_round,
      change_angle_cooldown, iterations, iteration_start, analysed>>

\* the dict {}
EmptyDict == AsDict(RawNone)

\* the analysis argument of a handler that is called directly: a dict whose
\* targeted_panels the caller chose, or the dict {}
HandlerDicts ==
    {<<EmptyDict>>} \cup {<<RawDict("focus_clash", "heated", "list", t)>> :
                            t \in {<<>>, <<"B">>, <<"B", "A">>}}

\* "if analysis:" is false for None and for {}
Truthy(given) == given # <<>> /\ given[1] # EmptyDict

\* _conduct_initial_opinions_stage(topic, panel_agents)
CallInitialOpinionsStage ==
    /\ pc = "idle"
    /\ all_statements = <<>>
    /\ display = <<>>
    /\ LET S1 == InitialOpinionsStage(Now, panel_agents)
       IN  /\ all_statements' = S1.st
           /\ apologies' = S1.apologies
           /\ statements' = S1.statements
           /\ panel_agents' = S1.roster
           /\ response_generator' = S1.generator
           /\ display' = S1.disp
           /\ initial_opinions_done' = S1.done
    /\ UNCHANGED <<roundFrame, pc, current_round, round_completed, analysis,
                   message_analysis, callVars, last_handler, handler_calls>>

Returned(handler, round_number, out) ==
    /\ Ran(handler, out)
    /\ IF out.raised
       THEN pc' = "raised" /\ UNCHANGED round_completed
       ELSE pc' = "returned" /\ round_completed' = out.completed
    /\ current_round' = round_number
    /\ UNCHANGED <<roundFrame, initial_opinions_done>>

\* the round numbers the handlers are called with: the first round and
\* the last one
RoundNumbers == {1, MaxRounds}

\* _conduct_provoke_round(round_number, topic, panel_agents, analysis)
CallProvokeRound ==
    /\ pc = "idle"
    /\ \E round_number \in RoundNumbers,
          res \in Resolutions(AllResolutions) :
       \E follow_up \in EscalationOutcomes(res,
                            IF failing = {} THEN AllFollowUps
                            ELSE FailingFollowUps) :
         /\ Returned("provoke_debate", round_number,
                     ProvokeRound(Now, round_number, panel_agents, res,
                                  follow_up))
         /\ message_analysis' = res
         /\ follow_up_analysis' = follow_up
    /\ UNCHANGED analysis

\* _conduct_evidence_round(round_number, topic, panel_agents, analysis)
CallEvidenceRound ==
    /\ pc = "idle"
    /\ \E round_number \in RoundNumbers,
          res \in Resolutions(AllResolutions) :
         /\ Returned("pressure_evidence", round_number,
                     EvidenceRound(Now, round_number, panel_agents, res))
         /\ message_analysis' = res
         /\ UNCHANGED <<follow_up_analysis, analysis>>

\* _conduct_normal_round(round_number, panel_agents, analysis)
CallNormalRound ==
    /\ pc = "idle"
    /\ \E round_number \in RoundNumbers, given \in {<<>>} \cup HandlerDicts :
         /\ Returned("continue_normal", round_number,
                     NormalRound(Now, round_number, panel_agents,
                                 Truthy(given)))
         /\ analysis' = given
    /\ UNCHANGED <<message_analysis, follow_up_analysis>>

\* _conduct_clash_round(round_number, topic, panel_agents, analysis)
CallClashRound ==
    /\ pc = "idle"
    /\ \E round_number \in RoundNumbers, given \in HandlerDicts :
         /\ Returned("focus_clash", round_number,
                     ClashRound(Now, round_number, panel_agents,
                                Truthy(given)))
         /\ analysis' = given
    /\ UNCHANGED <<message_analysis, follow_up_analysis>>

\* _conduct_angle_change_round(round_number, topic, panel_agents, analysis)
CallAngleChangeRound ==
    /\ pc = "idle"
    /\ \E round_number \in RoundNumbers :
         Returned("change_angle", round_number,
                  AngleChangeRound(Now, round_number, panel_agents))
    /\ UNCHANGED <<analysis, message_analysis, follow_up_analysis>>

NextRound ==
    \/ AddUserAsPanelist
    \/ CallInitialOpinionsStage
    \/ CallProvokeRound
    \/ CallEvidenceRound
    \/ CallNormalRound
    \/ CallClashRound
    \/ CallAngleChangeRound

SpecRound == InitRound /\ [][NextRound]_vars

(***************************************************************************)
(* _validate_analysis applied to every raw analysis of the bounded         *)
(* vocabulary, and applied again to its own result.                        *)
(***************************************************************************)
RawActions == valid_actions \cup {"summarize", Absent, Null}

RawTemps == valid_temps \cup {"balanced", "normal", "lukewarm", Absent, Null}

PanelSymbols == {AllNames[i] : i \in 1..MaxRoster} \cup {Stranger}

RawInputs ==
    {RawNone}
    \cup {RawDict(a, t, "list", p) :
            a \in RawActions, t \in RawTemps,
            p \in SeqsUpTo(PanelSymbols, MaxPanels)}
    \cup {RawDict(a, t, k, <<>>) :
            a \in RawActions, t \in RawTemps, k \in {"absent", "null"}}

InitValidate ==
    InitState("validate", Rosters(1..MaxRoster), {1}, {1}, {"cold"}, RawInputs, {{}})

Call(raw, agents) ==
    IF ValidateRaises(raw)
    THEN [raised |-> TRUE, value |-> raw]
    ELSE [raised |-> FALSE, value |-> ValidateAnalysis(raw, agents)]

dispatcherVars ==
    <<panel_agents, response_generator, configVars, max_rounds, current_round,
      consecutive_cold_rounds,
      consecutive_failed_rounds, last_round_type, last_change_angle_round,
      analysis, round_completed, all_statements, apologies, statements,
      initial_opinions_done, display, change_angle_cooldown, message_analysis,
      callVars, last_handler,
      handler_calls, iterations, iteration_start, analysed>>

\* out = self._validate_analysis(raw, panel_agents)
Validate ==
    /\ pc = "validate"
    /\ v_result' = Call(v_raw, panel_agents)
    /\ pc' = "validated"
    /\ UNCHANGED <<dispatcherVars, v_raw, v_again>>

\* self._validate_analysis(out, panel_agents)
ValidateAgain ==
    /\ pc = "validated"
    /\ ~v_result.raised
    /\ v_again' = Call(v_result.value, panel_agents)
    /\ pc' = "revalidated"
    /\ UNCHANGED <<dispatcherVars, v_raw, v_result>>

NextValidate == Validate \/ ValidateAgain

SpecValidate == InitValidate /\ [][NextValidate]_vars

(***************************************************************************)
(* Properties.                                                             *)
(***************************************************************************)
Shown(msg) == {i \in DOMAIN display : display[i].msg = msg}

ShownInRound(msg, round_number) ==
    {i \in Shown(msg) : display[i].round = round_number}

Spoken(stages, round_number) ==
    {j \in DOMAIN all_statements :
        /\ all_statements[j].stage \in stages
        /\ all_statements[j].round = round_number}

TargetingHandlers == {"provoke_debate", "pressure_evidence"}

\* the entries appended since the loop body was entered
IterationEntries ==
    SubSeq(all_statements, iteration_start + 1, Len(all_statements))

OneNormalRound ==
    [i \in 1..Len(panel_agents) |->
        [agent_name |-> panel_agents[i].name, stage |-> "normal",
         round |-> current_round]]

Rank(t) ==
    CASE t = "cold" -> 0 [] t = "stuck" -> 1 [] t = "neutral" -> 2
      [] t = "heated" -> 3 [] OTHER -> 4

ColdAt(k) ==
    /\ k \in DOMAIN analysed
    /\ analysed[k] # "none"
    /\ Rank(analysed[k]) <= Rank(intervention_threshold)

RoundCap == Max(original_max_rounds, (original_max_rounds * 3) \div 2)

\* C1: in a Provoke or Evidence round the generated moderator text is on
\* display only if a participant answered in that round; a handler that
\* returned completed = FALSE has not displayed it.
C1_ModeratorTextOnlyIfAnswered ==
    (pc = "returned" /\ last_handler \in TargetingHandlers)
        => /\ (ShownInRound("moderator", current_round) # {}
                 => Spoken({"provoke", "evidence"}, current_round) # {})
           /\ (~round_completed => Shown("moderator") = {})

\* C2: a Provoke or Evidence handler whose resolver result is empty or holds
\* the all-sentinel returns FALSE and changes neither the transcript nor the
\* display: no moderator text is shown and nobody speaks.
C2_UnresolvedLeavesNoTrace ==
    [][(/\ handler_calls' = handler_calls + 1
        /\ last_handler' \in TargetingHandlers
        /\ \/ message_analysis'.targeted_panels = <<>>
           \/ \E i \in DOMAIN message_analysis'.targeted_panels :
                message_analysis'.targeted_panels[i] = AllSentinel)
       => (/\ round_completed' = FALSE
           /\ all_statements' = all_statements
           /\ display' = display)]_vars

C2_Witness ==
    /\ pc = "returned"
    /\ last_handler = "provoke_debate"
    /\ message_analysis.targeted_panels = <<"C", AllSentinel>>
    /\ message_analysis.response_type = "individual"
    /\ Len(all_statements) = Len(panel_agents)
    /\ Len(panel_agents) = 3
    /\ ~round_completed

\* C3: once the selected handler has returned completed = FALSE, the
\* iteration reaches the termination policy only after exactly one Normal
\* round under the same round number: the iteration's entries are one per
\* roster participant in roster order, and lastRoundType is forced_normal.
C3_FailureForcesNormal ==
    (pc \in {"policy", "loop", "done"} /\ iterations > 0 /\ ~round_completed)
        => /\ last_round_type = "forced_normal"
           /\ last_handler = "forced_normal"
           /\ IterationEntries = OneNormalRound
           /\ Len(analysed) = iterations

C3_Witness ==
    /\ pc = "policy"
    /\ ~round_completed
    /\ current_round = 2
    /\ message_analysis.targeted_panels = <<Stranger>>
    /\ Len(IterationEntries) = 2

\* C4: consecutiveFailedRounds never exceeds 1, and it is 0 wherever the
\* forced Normal round is not pending: at the end of every iteration and
\* after the loop.
C4_FailedRoundsAtMostOne ==
    /\ consecutive_failed_rounds \in {0, 1}
    /\ pc # "fallback" => consecutive_failed_rounds = 0

\* a second handler failure, in the iteration after a failed one
C4_Witness ==
    /\ pc = "fallback"
    /\ consecutive_failed_rounds = 1
    /\ iterations = 2
    /\ ShownInRound("moderator", 1) # {}
    /\ Spoken({"provoke", "evidence"}, 1) = {}
    /\ Spoken({"normal"}, 1) # {}

\* C5: the dispatcher loop ends, and it never enters more loop bodies than
\* max(originalMaxRounds, floor(originalMaxRounds * 1.5)).
C5_LoopTerminates ==
    /\ <>(pc \in {"done", "raised"})
    /\ [](iterations <= RoundCap)

C5_Witness ==
    /\ pc = "done"
    /\ original_max_rounds = 2
    /\ iterations = 3
    /\ Shown("closing") = {}

\* C6: maxRounds stays between originalMaxRounds and
\* max(originalMaxRounds, floor(originalMaxRounds * 1.5)), and currentRound
\* does not exceed maxRounds at the end of an iteration.
C6_MaxRoundsBounded ==
    pc # "init"
        => /\ original_max_rounds <= max_rounds
           /\ max_rounds <= RoundCap
           /\ pc \in {"loop", "done"} => current_round <= max_rounds

\* every reading heated, the debate extended up to the cap
C6_Witness ==
    /\ pc = "done"
    /\ analysed = <<"heated", "heated", "heated">>
    /\ original_max_rounds = 2
    /\ max_rounds = 3
    /\ current_round = 3

\* C7: the policy ends the loop early only when currentRound >= minRounds
\* and the analysed temperature was at or below the threshold in this
\* iteration and in the one before it; that step shows the one and only
\* closing message and changes nothing else, and nothing runs afterwards.
C7_EarlyTerminationOnlyWhenColdTwice ==
    [][/\ pc # "done"
       /\ (pc = "policy" /\ pc' = "done")
            => /\ current_round >= min_rounds
               /\ ColdAt(Len(analysed))
               /\ ColdAt(Len(analysed) - 1)
               /\ display' = Append(display,
                      [msg |-> "closing", round |-> current_round,
                       at |-> Len(all_statements)])
               /\ Shown("closing") = {}
               /\ UNCHANGED <<all_statements, max_rounds, current_round,
                              handler_calls, iterations, analysed>>]_vars

\* three cold rounds with minRounds 3: the loop goes on after the second
\* and ends after the third
C7_Witness ==
    /\ pc = "done"
    /\ Shown("closing") # {}
    /\ current_round = 3
    /\ max_rounds = 3
    /\ min_rounds = 3
    /\ intervention_threshold = "cold"
    /\ \A k \in 1..3 : ColdAt(k)

\* C8: an AngleChange round is never run in round 1 or 2, nor within 3
\* rounds of the previous AngleChange round.
C8_AngleChangeCooldown ==
    \A j \in DOMAIN all_statements :
        all_statements[j].stage = "angle"
            => /\ all_statements[j].round >= 3
               /\ \A k \in DOMAIN all_statements :
                    (/\ all_statements[k].stage = "angle"
                     /\ all_statements[k].round < all_statements[j].round)
                        => all_statements[j].round - all_statements[k].round >= 3

\* C9: _validate_analysis returns, for every raw analysis, a record with a
\* known next_action, a known temperature and only roster names, in their
\* original order, in targeted_panels.
C9_ValidateTotalAndClosed ==
    pc \in {"validated", "revalidated"}
        => /\ ~v_result.raised
           /\ v_result.value.next_action \in valid_actions
           /\ (v_raw.next_action \notin valid_actions
                 => v_result.value.next_action = "continue_normal")
           /\ v_result.value.temperature \in valid_temps
           /\ (v_raw.temperature \notin {"cold", "stuck", "heated"}
                 => v_result.value.temperature = "neutral")
           /\ v_result.value.targeted_panels =
                SelectSeq(v_raw.targeted_panels,
                          LAMBDA n : \E i \in DOMAIN panel_agents :
                                        panel_agents[i].name = n)

\* C10: _validate_analysis is idempotent: it returns for every raw analysis,
\* applying it to its own result returns that result, and the three fields
\* of an input that is already valid come back unchanged.
C10_ValidateIdempotent ==
    /\ pc \in {"validated", "revalidated"} => ~v_result.raised
    /\ pc = "revalidated" => (~v_again.raised /\ v_again.value = v_result.value)
    /\ (/\ pc \in {"validated", "revalidated"}
        /\ ~v_result.raised
        /\ v_raw.kind = "dict"
        /\ v_raw.next_action \in valid_actions
        /\ v_raw.temperature \in valid_temps
        /\ v_raw.panels_kind = "list"
        /\ Range(v_raw.targeted_panels) \subseteq AgentNames(panel_agents))
           => /\ v_result.value.next_action = v_raw.next_action
              /\ v_result.value.temperature = v_raw.temperature
              /\ v_result.value.targeted_panels = v_raw.targeted_panels

\* idempotence restricted to the inputs for which _validate_analysis returns
ValidateIdempotentWhereDefined ==
    /\ pc = "revalidated" => (~v_again.raised /\ v_again.value = v_result.value)
    /\ pc \in {"validated", "revalidated"} /\ ~v_result.raised
          => /\ v_result.value.next_action \in valid_actions
             /\ v_result.value.temperature \in valid_temps
             /\ Range(v_result.value.targeted_panels)
                   \subseteq AgentNames(panel_agents)

IsPrefix(s, t) == Len(s) <= Len(t) /\ SubSeq(t, 1, Len(s)) = s

\* C11: during a run of conduct_dynamic_debate, once the transcript has been
\* reset, every step leaves the earlier transcript as a prefix of the later
\* one: handlers, the failure fallback and early termination only append.
C11_TranscriptAppendOnly ==
    [][pc # "init" => IsPrefix(all_statements, all_statements')]_vars

\* a run with a failed handler, its forced Normal round and an early end
C11_Witness ==
    /\ pc = "done"
    /\ Shown("closing") # {}
    /\ last_round_type = "forced_normal"
    /\ ShownInRound("moderator", 1) # {}
    /\ Len(all_statements) = 3 * Len(panel_agents)
    /\ Spoken({"normal"}, 2) # {}

HandlerStages == {"provoke", "provoke_follow_up", "provoke_reaction", "evidence"}

\* C12: every transcript entry is by a participant of the roster, and a
\* Provoke or Evidence handler whose resolver result holds no roster name
\* appends no entry at all.
C12_SpeakersAreRosterMembers ==
    /\ \A j \in DOMAIN all_statements :
          all_statements[j].agent_name \in AgentNames(panel_agents)
    /\ (/\ pc = "returned"
        /\ last_handler \in TargetingHandlers
        /\ Range(message_analysis.targeted_panels)
              \cap AgentNames(panel_agents) = {})
           => Spoken(HandlerStages, current_round) = {}

\* a resolver result that names C, who is not on the roster of A, the user
\* and B, and then the user
C12_Witness ==
    /\ pc = "returned"
    /\ last_handler = "provoke_debate"
    /\ message_analysis.targeted_panels = <<"C", UserName>>
    /\ message_analysis.response_type = "sequential"
    /\ UserName \in AgentNames(panel_agents)
    /\ "C" \notin AgentNames(panel_agents)
    /\ round_completed
    /\ Cardinality(Spoken({"provoke"}, current_round)) = 1

\* the list without its k-th element
Without(list, k) == SubSeq(list, 1, k - 1) \o SubSeq(list, k + 1, Len(list))

\* C13: add_user_as_panelist on a roster of size N gives a roster of size
\* N + 1 with exactly one new entry, which is human, the N existing entries
\* keeping their order; for N > 1 the new entry is neither first nor last,
\* for N <= 1 it is last.
C13_UserInsertedInside ==
    [][panel_agents' # panel_agents
        => LET N == Len(panel_agents)
           IN  /\ Len(panel_agents') = N + 1
               /\ \E k \in 1..(N + 1) :
                    /\ panel_agents'[k] = PanelHuman(UserName)
                    /\ Without(panel_agents', k) = panel_agents
                    /\ N > 1 => (k # 1 /\ k # N + 1)
                    /\ N <= 1 => k = N + 1]_vars

\* the user placed at the later of the two inner positions of a roster of 3
C13_Witness ==
    /\ Len(panel_agents) = 4
    /\ panel_agents[3].is_human
    /\ ~panel_agents[2].is_human
    /\ ~panel_agents[4].is_human

\* the entries of the transcript that follow the initial opinions
AfterInitial == SelectSeq(all_statements, LAMBDA e : e.stage # "initial")

\* one entry per roster participant, in roster order
OncePerParticipant(stage) ==
    [i \in 1..Len(panel_agents) |->
        [agent_name |-> panel_agents[i].name, stage |-> stage,
         round |-> current_round]]

\* C14: a Normal round and an AngleChange round each append exactly one
\* entry per roster participant, in roster order, and return TRUE, for
\* every roster and with or without an analysis.
C14_EveryoneSpeaksOnce ==
    /\ (pc \in {"returned", "raised"} /\ last_handler = "continue_normal")
          => /\ pc = "returned"
             /\ round_completed
             /\ AfterInitial = OncePerParticipant("normal")
    /\ (pc \in {"returned", "raised"} /\ last_handler = "change_angle")
          => /\ pc = "returned"
             /\ round_completed
             /\ AfterInitial = OncePerParticipant("angle")

SpeakerNames(entries) == [j \in DOMAIN entries |-> entries[j].agent_name]

RosterNames(from) ==
    [j \in 1..(Len(panel_agents) - from + 1) |->
        panel_agents[from + j - 1].name]

\* C15: a Clash round on a roster of N >= 2 appends N + 1 entries, by
\* roster[0], roster[1], roster[0] and then roster[2..N-1] in roster order,
\* returns TRUE and makes no resolver call, whatever targeted_panels the
\* analysis carries.
C15_ClashOrder ==
    (/\ pc \in {"returned", "raised"}
     /\ last_handler = "focus_clash"
     /\ Len(panel_agents) >= 2)
        => /\ pc = "returned"
           /\ round_completed
           /\ resolver_calls = 0
           /\ Len(AfterInitial) = Len(panel_agents) + 1
           /\ SpeakerNames(AfterInitial) =
                <<panel_agents[1].name, panel_agents[2].name,
                  panel_agents[1].name>> \o RosterNames(3)
           /\ \A j \in DOMAIN AfterInitial :
                AfterInitial[j].round = current_round

\* C16: a Clash round on a roster of fewer than 2 participants appends the
\* entries of a Normal round with the same round number, roster and
\* analysis, one Normal turn per participant in roster order, and returns
\* TRUE as that round does.
C16_SmallClashIsNormal ==
    [][(/\ handler_calls' = handler_calls + 1
        /\ last_handler' = "focus_clash"
        /\ Len(panel_agents) < 2)
       => /\ pc' = "returned"
          /\ round_completed' = TRUE
          /\ all_statements' = all_statements \o
                [i \in 1..Len(panel_agents) |->
                    [agent_name |-> panel_agents[i].name, stage |-> "normal",
                     round |-> current_round']]]_vars

\* the names of a resolver result that are roster names, in listed order
ResolvedNames ==
    SelectSeq(message_analysis.targeted_panels,
              LAMBDA n : n \in AgentNames(panel_agents))

IndividualMode ==
    /\ message_analysis.response_type \notin {"debate", "sequential"}
    /\ ~message_analysis.is_clash

\* the handler got past both targeting checks
Targeted ==
    /\ message_analysis.targeted_panels # <<>>
    /\ AllSentinel \notin Range(message_analysis.targeted_panels)
    /\ ResolvedNames # <<>>

\* C17 as stated: in an Evidence round every appended entry is by a
\* participant the resolver named, in every response mode; in individual
\* mode exactly one entry is appended, by the first resolved participant,
\* the moderator text is displayed exactly once and the handler returns
\* TRUE.
C17_EvidenceOnlyTargetsSpeak ==
    (pc = "returned" /\ last_handler = "pressure_evidence")
        => /\ \A j \in DOMAIN AfterInitial :
                /\ AfterInitial[j].agent_name
                      \in Range(message_analysis.targeted_panels)
                /\ AfterInitial[j].stage = "evidence"
           /\ IndividualMode
                 => /\ ResolvedNames # <<>>
                    /\ SpeakerNames(AfterInitial) = <<ResolvedNames[1]>>
                    /\ Cardinality(Shown("moderator")) = 1
                    /\ Cardinality({i \in DOMAIN display :
                                       display[i].round = current_round}) = 1
                    /\ round_completed

\* C17, amended: the same, the part on the individual mode for a resolver
\* result that is not empty, does not hold the all-sentinel and names at
\* least one roster participant; a result that names no roster participant
\* makes the handler return FALSE with no entry appended, in every mode.
C17_EvidenceResolvedTargetsSpeak ==
    (pc = "returned" /\ last_handler = "pressure_evidence")
        => /\ \A j \in DOMAIN AfterInitial :
                /\ AfterInitial[j].agent_name
                      \in Range(message_analysis.targeted_panels)
                /\ AfterInitial[j].stage = "evidence"
           /\ (IndividualMode /\ Targeted)
                 => /\ SpeakerNames(AfterInitial) = <<ResolvedNames[1]>>
                    /\ Cardinality(Shown("moderator")) = 1
                    /\ Cardinality({i \in DOMAIN display :
                                       display[i].round = current_round}) = 1
                    /\ round_completed
           /\ ResolvedNames = <<>>
                 => /\ AfterInitial = <<>>
                    /\ ~round_completed

\* individual mode on a roster that holds the user; the resolver named a
\* stranger, then the user, then A: the user alone speaks
C17_Witness ==
    /\ pc = "returned"
    /\ last_handler = "pressure_evidence"
    /\ message_analysis.targeted_panels = <<Stranger, UserName>>
    /\ IndividualMode
    /\ Len(panel_agents) >= 3
    /\ SpeakerNames(AfterInitial) = <<UserName>>
    /\ round_completed

\* C18: in a Provoke round in individual mode with a resolved participant,
\* the first resolved participant speaks first and once, then at most 2
\* further participants speak once each, none of whom the resolver named.
C18_ReactionsFromNonTargeted ==
    (/\ pc = "returned"
     /\ last_handler = "provoke_debate"
     /\ IndividualMode
     /\ Targeted)
        => /\ AfterInitial # <<>>
           /\ Len(AfterInitial) <= 3
           /\ AfterInitial[1].agent_name = ResolvedNames[1]
           /\ AfterInitial[1].stage = "provoke"
           /\ \A j \in 2..Len(AfterInitial) :
                /\ AfterInitial[j].stage = "provoke_reaction"
                /\ AfterInitial[j].agent_name # ResolvedNames[1]
                /\ AfterInitial[j].agent_name
                      \notin Range(message_analysis.targeted_panels)
                /\ \A k \in 2..Len(AfterInitial) :
                     AfterInitial[k].agent_name = AfterInitial[j].agent_name
                        => k = j

\* the same without the requirement that a reacting participant is not
\* named by the resolver
ProvokeIndividualShape ==
    (/\ pc = "returned"
     /\ last_handler = "provoke_debate"
     /\ IndividualMode
     /\ Targeted)
        => /\ AfterInitial # <<>>
           /\ Len(AfterInitial) <= 3
           /\ AfterInitial[1].agent_name = ResolvedNames[1]
           /\ AfterInitial[1].stage = "provoke"
           /\ \A j \in 2..Len(AfterInitial) :
                /\ AfterInitial[j].stage = "provoke_reaction"
                /\ AfterInitial[j].agent_name # ResolvedNames[1]
                /\ \A k \in 2..Len(AfterInitial) :
                     AfterInitial[k].agent_name = AfterInitial[j].agent_name
                        => k = j

Count(names, n) == Cardinality({j \in DOMAIN names : names[j] = n})

FirstAt(names, n) == CHOOSE j \in DOMAIN names :
    names[j] = n /\ \A k \in 1..(j - 1) : names[k] # n

\* C19: in sequential mode of a Provoke or Evidence round each targeted
\* roster participant speaks exactly once, in listed order, nobody else
\* speaks and no escalation call is made, also for resolver lists that
\* repeat a name or hold non-roster names.
C19_SequentialOncePerTarget ==
    (/\ pc = "returned"
     /\ last_handler \in TargetingHandlers
     /\ message_analysis.response_type = "sequential"
     /\ ~message_analysis.is_clash
     /\ Targeted)
        => LET spoke == SpeakerNames(AfterInitial)
           IN  /\ round_completed
               /\ responder_calls = 1
               /\ resolver_calls = 1
               /\ Range(spoke) = Range(ResolvedNames)
               /\ \A n \in Range(ResolvedNames) : Count(spoke, n) = 1
               /\ \A n, m \in Range(ResolvedNames) :
                    FirstAt(ResolvedNames, n) < FirstAt(ResolvedNames, m)
                        => FirstAt(spoke, n) < FirstAt(spoke, m)

\* what holds in sequential mode: one turn per listed roster name
SequentialOncePerListedName ==
    (/\ pc = "returned"
     /\ last_handler \in TargetingHandlers
     /\ message_analysis.response_type = "sequential"
     /\ ~message_analysis.is_clash
     /\ Targeted)
        => /\ round_completed
           /\ responder_calls = 1
           /\ resolver_calls = 1
           /\ SpeakerNames(AfterInitial) = ResolvedNames

DebateMode ==
    message_analysis.response_type = "debate" \/ message_analysis.is_clash

\* the entries of the escalation step
FollowUpEntries ==
    SelectSeq(all_statements, LAMBDA e : e.stage = "provoke_follow_up")

\* C20: in debate mode of a Provoke round the targeted participants speak,
\* then the escalation responder call is made at most once; somebody speaks
\* again only if that call's text is longer than 50 and holds a keyword and
\* the second resolution names specific participants; at most 2 turns
\* follow, all by targeted participants of the round; the round returns TRUE.
C20_EscalationAtMostOnce ==
    (pc = "returned" /\ last_handler = "provoke_debate" /\ DebateMode
     /\ Targeted)
        => /\ round_completed
           /\ responder_calls <= 2
           /\ resolver_calls <= 2
           /\ Cardinality(Shown("follow_up")) <= 1
           /\ AfterInitial =
                SelectSeq(all_statements, LAMBDA e : e.stage = "provoke")
                \o FollowUpEntries
           /\ SpeakerNames(SelectSeq(all_statements,
                                     LAMBDA e : e.stage = "provoke"))
                = ResolvedNames
           /\ Len(FollowUpEntries) <= 2
           /\ Range(SpeakerNames(FollowUpEntries)) \subseteq Range(ResolvedNames)
           /\ FollowUpEntries # <<>>
                => /\ follow_up_analysis.length > 50
                   /\ follow_up_analysis.has_keyword
                   /\ follow_up_analysis.targeted_panels # <<>>
                   /\ AllSentinel
                         \notin Range(follow_up_analysis.targeted_panels)
                   /\ Shown("follow_up") # {}
                   /\ resolver_calls = 2

\* an escalation whose second resolution lists three names: two speak again
C20_Witness ==
    /\ pc = "returned"
    /\ last_handler = "provoke_debate"
    /\ message_analysis = Resolution(<<"A", "B">>, "debate", FALSE)
    /\ follow_up_analysis.targeted_panels = <<"B", "A", "B">>
    /\ Len(panel_agents) = 3
    /\ SpeakerNames(AfterInitial) = <<"A", "B", "B", "A">>
    /\ responder_calls = 2

\* C21: a resolver call that raises in a Provoke or Evidence round is
\* treated as an empty resolution: the handler returns completed = FALSE
\* with no moderator text of that round on display, and the dispatcher goes
\* on to the forced Normal round instead of stopping.
C21_ResolverFailureIsEmptyResolution ==
    (message_analysis.error /\ last_handler \in TargetingHandlers)
        => /\ pc \in {"completion", "fallback"}
           /\ ~round_completed
           /\ ShownInRound("moderator", current_round) = {}

\* the analysis consumed in this iteration is the analyzer's failure default
AnalyzerFailed ==
    /\ Len(analysed) = iterations
    /\ analysis # <<>>
    /\ analysis[1].main_issue = AnalyzerDefault.main_issue

\* C22: when the analyzer call fails in an iteration where analysis is due,
\* the iteration consumes the default analysis: the Normal handler is the
\* one handler run, lastRoundType is continue_normal, the temperature the
\* termination policy sees is neutral, so the reading counts as cold exactly
\* when the threshold is neutral or heated, and maxRounds is not extended.
C22_AnalyzerFailureIsDefault ==
    /\ [](AnalyzerFailed =>
            /\ analysis[1].next_action = "continue_normal"
            /\ analysis[1].temperature = "neutral"
            /\ analysed[iterations] = "neutral"
            /\ AnalysisDue(current_round)
            /\ pc # "fallback"
            /\ pc # "dispatch" =>
                 /\ last_handler = "continue_normal"
                 /\ last_round_type = "continue_normal"
                 /\ round_completed
                 /\ IterationEntries = OneNormalRound)
    /\ [][(AnalyzerFailed /\ pc = "policy") =>
            /\ max_rounds' = max_rounds
            /\ Shown("extension")' = Shown("extension")
            /\ consecutive_cold_rounds' =
                  IF intervention_threshold \in {"neutral", "heated"}
                  THEN consecutive_cold_rounds + 1 ELSE 0]_vars

\* the transcript and the presenter as the direct handler call found them
BeforeCall ==
    [st |-> SelectSeq(all_statements, LAMBDA e : e.stage = "initial"),
     disp |-> SelectSeq(display, LAMBDA d : d.round = 0),
     done |-> initial_opinions_done, responder |-> 0, resolver |-> 0,
     failing |-> {}, apologies |-> {}, statements |-> <<>>,
     roster |-> panel_agents, generator |-> response_generator,
     force_rebind |-> force_rebind_mocks]

\* the same handler call with the same arguments and collaborator outputs
\* when every completion call succeeds
SucceedingCall ==
    CASE last_handler = "provoke_debate" ->
            ProvokeRound(BeforeCall, current_round, panel_agents,
                         message_analysis, follow_up_analysis)
      [] last_handler = "pressure_evidence" ->
            EvidenceRound(BeforeCall, current_round, panel_agents,
                          message_analysis)
      [] last_handler = "focus_clash" ->
            ClashRound(BeforeCall, current_round, panel_agents,
                       Truthy(analysis))
      [] last_handler = "change_angle" ->
            AngleChangeRound(BeforeCall, current_round, panel_agents)
      [] OTHER ->
            NormalRound(BeforeCall, current_round, panel_agents,
                        Truthy(analysis))

\* C23: when the generation of a participant's turn fails, the turn still
\* leaves exactly one transcript entry attributed to that participant (the
\* canned apology), the other participants of the round still speak, and
\* the handler returns what it returns when the turn succeeds: transcript
\* speakers, presenter calls and return value equal those of the same call
\* without the failure, and the apologies are exactly the entries of the
\* failing participants.
C23_FailedTurnStillSpeaks ==
    (pc \in {"returned", "raised"} /\ failing # {})
        => LET call == SucceedingCall
           IN  /\ (pc = "raised") = call.raised
               /\ SpeakerNames(all_statements) = SpeakerNames(call.S.st)
               /\ all_statements = call.S.st
               /\ display = call.S.disp
               /\ round_completed = call.completed
               /\ apologies = {j \in DOMAIN all_statements :
                                  all_statements[j].agent_name \in failing}

\* B fails in a Provoke round that named A and B for a debate with an
\* escalation: B's two turns are apologies, A still speaks twice
C23_Witness ==
    /\ pc = "returned"
    /\ failing = {"B"}
    /\ last_handler = "provoke_debate"
    /\ round_completed
    /\ SpeakerNames(all_statements) = <<"A", "B", "B", "A">>
    /\ apologies = {2, 3}

\* rounds 1 and 2 were both analysed with temperature cold
ColdTwice ==
    /\ Len(analysed) >= 2
    /\ analysed[1] = "cold"
    /\ analysed[2] = "cold"

\* entries of rounds in which only some participants speak, or some speak
\* more than once
PartialRoundEntries ==
    SelectSeq(all_statements,
              LAMBDA e : e.stage \notin {"initial", "normal", "angle"})

OpeningEntries == SelectSeq(all_statements, LAMBDA e : e.stage = "initial")

\* what the scenario says apart from the size of the transcript
ScenarioShape ==
    /\ \A k \in 1..2 : Len(analysed) >= k => analysed[k] # "none"
    /\ (/\ iterations = 1
        /\ Len(analysed) = 1
        /\ NextAction = "continue_normal"
        /\ pc # "dispatch")
          => /\ IterationEntries = OneNormalRound
             /\ Len(IterationEntries) = 4
             /\ last_round_type = "continue_normal"
    /\ ColdTwice
          => /\ iterations = 2
             /\ current_round \in {1, 2}
             /\ pc # "loop"
             /\ \A j \in DOMAIN all_statements : all_statements[j].round <= 2
             /\ Cardinality(Shown("closing")) = IF pc = "done" THEN 1 ELSE 0

\* C24 as stated: in the scenario (roster of 4, minRounds 2, maxRounds 6,
\* analysisFrequency 2, threshold cold) analysis runs in rounds 1 and 2; a
\* round 1 that yields continue_normal has all four speak once and leaves
\* lastRoundType continue_normal; after cold readings in rounds 1 and 2 the
\* loop ends at the end of round 2 with one intervention message and no
\* round 3, and the transcript holds no more than 2 x 4 entries plus the
\* partial-round entries.
C24_Scenario ==
    /\ ScenarioShape
    /\ (ColdTwice /\ pc = "done")
          => Len(all_statements) <= 2 * 4 + Len(PartialRoundEntries)

\* the stage labels a handler writes into the transcript
StagesOf(handler) ==
    CASE handler = "provoke_debate" ->
            {"provoke", "provoke_follow_up", "provoke_reaction"}
      [] handler = "pressure_evidence" -> {"evidence"}
      [] handler = "focus_clash" ->
            IF Len(panel_agents) < 2 THEN {"normal"}
            ELSE {"clash", "clash_extra"}
      [] handler = "change_angle" -> {"angle"}
      [] OTHER -> {"normal"}

\* C25: every dispatcher iteration that runs to its end leaves at least one
\* new transcript entry when the roster is not empty, and all the entries of
\* the iteration come from one handler invocation: the handler invoked last,
\* under the iteration's round number; a handler that returned
\* completed = FALSE has appended nothing.
C25_OneHandlerPerIteration ==
    /\ (pc \in {"completion", "fallback"} /\ ~round_completed)
          => IterationEntries = <<>>
    /\ (pc \in {"completion", "policy"} /\ (pc = "completion" => round_completed))
          => /\ panel_agents # <<>> => Len(IterationEntries) >= 1
             /\ \A j \in DOMAIN IterationEntries :
                   /\ IterationEntries[j].stage \in StagesOf(last_handler)
                   /\ IterationEntries[j].round = current_round
             /\ handler_calls >= iterations
             /\ (last_handler = "forced_normal") = ~round_completed

\* the second iteration's handler failed and the forced Normal round
\* completed it: three handler invocations so far, two entries this round
C25_Witness ==
    /\ pc = "policy"
    /\ iterations = 2
    /\ handler_calls = 3
    /\ last_handler = "forced_normal"
    /\ last_round_type = "forced_normal"
    /\ Len(IterationEntries) = 2
    /\ resolver_calls = 0

\* the entries of round r of the discussion stage
DiscussionEntries(r) ==
    SelectSeq(all_statements,
              LAMBDA e : e.stage = "discussion" /\ e.round = r)

\* C26: one run of conduct_static_debate on a constructed orchestrator and a
\* roster of N AI participants with debate_rounds = K asks each participant once for its initial opinion
\* and K times for a debate response, in roster order within each round:
\* the transcript is the roster's opening entries followed by K rounds of
\* one entry per participant in roster order, N x (1 + K) entries in all.
C26_StaticDebateTurns ==
    pc = "static_done"
        => /\ Len(all_statements) = Len(panel_agents) * (1 + min_rounds)
           /\ SpeakerNames(OpeningEntries) = RosterNames(1)
           /\ \A r \in 1..min_rounds :
                 SpeakerNames(DiscussionEntries(r)) = RosterNames(1)
           /\ \A j \in DOMAIN all_statements :
                 /\ all_statements[j].stage \in {"initial", "discussion"}
                 /\ all_statements[j].round
                      = (j - 1) \div Max(Len(panel_agents), 1)
           /\ current_round = min_rounds

\* three participants, two rounds: nine entries, the last by the third
C26_Witness ==
    /\ pc = "static_done"
    /\ Len(panel_agents) = 3
    /\ min_rounds = 2
    /\ Len(all_statements) = 9
    /\ all_statements[9].agent_name = "C"
    /\ all_statements[9].round = 2

\* the rounds under which the entries of the dynamic stage were spoken
RoundsUsed ==
    {all_statements[j].round :
        j \in {i \in DOMAIN all_statements : all_statements[i].stage # "initial"}}

\* C27: at the end of the k-th dispatcher iteration currentRound is k,
\* whether or not the selected handler failed: a failure takes exactly one
\* off currentRound, the forced Normal round puts it back and speaks under
\* the round number of the failed handler, and the round numbers in the
\* transcript are 1..k with no gap and no return to an earlier number.
C27_RoundNumberIsIterationNumber ==
    /\ [](/\ pc \in {"dispatch", "completion", "policy", "loop", "done"}
               => current_round = iterations
          /\ pc = "fallback" => current_round = iterations - 1
          /\ pc \in {"policy", "loop", "done"}
               => /\ RoundsUsed = 1..iterations
                  /\ \A i, j \in DOMAIN all_statements :
                        i < j => all_statements[i].round
                                    <= all_statements[j].round
                  /\ \A k \in 1..iterations :
                        Cardinality(ShownInRound("round_complete", k)) = 1)
    /\ [][/\ (pc = "completion" /\ pc' = "fallback")
               => current_round' = current_round - 1
          /\ (pc = "fallback" /\ pc' = "policy")
               => /\ current_round' = current_round + 1
                  /\ IterationEntries' = OneNormalRound'
                  /\ current_round' = iterations]_vars

\* a failed second iteration at its end: the forced round spoke as round 2
C27_Witness ==
    /\ pc = "policy"
    /\ ~round_completed
    /\ iterations = 2
    /\ current_round = 2
    /\ RoundsUsed = {1, 2}
    /\ Cardinality(Spoken({"normal"}, 2)) = Len(panel_agents)
    /\ last_handler = "forced_normal"

\* the handler that the dispatch selects for the current analysis
SelectedHandler ==
    IF NextAction = "none" THEN "continue_normal" ELSE NextAction

\* C28: in every iteration the handler run first is the one that matches
\* the validated next_action (Normal when no analysis ran this iteration);
\* at the end of the iteration lastRoundType is that action's name if the
\* handler completed and forced_normal if it did not, which happens only
\* after a Provoke or Evidence handler; lastAngleChangeRound becomes
\* currentRound exactly when AngleChange ran, and is unchanged otherwise.
C28_HandlerMatchesAction ==
    /\ []((pc \in {"policy", "loop", "done"} /\ iterations > 0)
             => /\ last_round_type =
                     IF round_completed THEN SelectedHandler
                     ELSE "forced_normal"
                /\ last_handler = last_round_type
                /\ ~round_completed => SelectedHandler \in TargetingHandlers)
    /\ [][/\ pc = "dispatch"
               => /\ last_handler' = SelectedHandler
                  /\ handler_calls' = handler_calls + 1
                  /\ last_change_angle_round' =
                        IF SelectedHandler = "change_angle"
                        THEN current_round ELSE last_change_angle_round
          /\ pc \notin {"dispatch", "init"}
               => last_change_angle_round' = last_change_angle_round]_vars

\* C29: the analyzer is called in round r exactly when r = 1 or r is a
\* multiple of analysisFrequency, at most once per iteration, and the
\* cooldown flag it receives is true exactly when r < 3 or an AngleChange
\* round ran in round r-2 or r-1.
C29_AnalysisSchedule ==
    /\ Len(analysed) <= iterations
    /\ \A r \in DOMAIN analysed :
          (analysed[r] # "none") = (r = 1 \/ r % analysis_frequency = 0)
    /\ (/\ iterations >= 1
        /\ pc # "init"
        /\ iterations = 1 \/ iterations % analysis_frequency = 0)
          => change_angle_cooldown =
                (\/ iterations < 3
                 \/ \E q \in {iterations - 2, iterations - 1} :
                       Spoken({"angle"}, q) # {})

\* round 4 is analysed after an AngleChange in round 1 and none since: the
\* gap is 3 and the flag is clear
C29_Witness ==
    /\ pc = "dispatch"
    /\ iterations = 4
    /\ analysed[4] # "none"
    /\ ~change_angle_cooldown
    /\ Spoken({"angle"}, 1) # {}
    /\ Spoken({"angle"}, 2) = {}
    /\ Spoken({"angle"}, 3) = {}

\* C30: maxRounds changes only by +1, and only at the end of an iteration
\* whose analysis read heated, with currentRound = maxRounds and maxRounds
\* below floor(originalMaxRounds * 1.5), each change with exactly one
\* extension message; when every round is analysed and reads heated under
\* threshold cold, the loop runs exactly
\* max(originalMaxRounds, floor(originalMaxRounds * 1.5)) rounds.
C30_ExtensionByOne ==
    /\ [][(pc # "init" /\ max_rounds' # max_rounds)
             => /\ max_rounds' = max_rounds + 1
                /\ pc = "policy"
                /\ pc' = "loop"
                /\ analysed[iterations] = "heated"
                /\ current_round = max_rounds
                /\ max_rounds < (original_max_rounds * 3) \div 2
                /\ display' = Append(display,
                       [msg |-> "extension", round |-> current_round,
                        at |-> Len(all_statements)])]_vars
    /\ [][(pc # "init" /\ Shown("extension")' # Shown("extension"))
             => max_rounds' = max_rounds + 1]_vars
    /\ [](/\ Cardinality(Shown("extension")) = max_rounds - original_max_rounds
             \/ pc = "init"
          /\ (/\ pc = "done"
              /\ intervention_threshold = "cold"
              /\ \A k \in DOMAIN analysed : analysed[k] = "heated")
                => /\ iterations = Max(original_max_rounds,
                                       (original_max_rounds * 3) \div 2)
                   /\ current_round = iterations)

\* an all-heated run of two scheduled rounds, extended once to three
C30_Witness ==
    /\ pc = "done"
    /\ intervention_threshold = "cold"
    /\ original_max_rounds = 2
    /\ analysed = <<"heated", "heated", "heated">>
    /\ max_rounds = 3
    /\ Cardinality(Shown("extension")) = 1

\* analysis runs every round and every reading so far was at or below a
\* threshold of the order
AllCold ==
    /\ analysis_frequency = 1
    /\ intervention_threshold \in Range(order)
    /\ \A k \in DOMAIN analysed : ColdAt(k)

\* C31: with analysis every round and every analysed temperature at or
\* below the threshold, the cold counter counts every round (it is not reset
\* before minRounds is reached) and the loop ends early exactly at the end
\* of round max(2, minRounds) whenever maxRounds lets that round run:
\* otherwise it ends, without a closing message, at maxRounds.
C31_EarlyEndAtMaxOfTwoAndMin ==
    (AllCold /\ pc \in {"loop", "done"} /\ Len(analysed) = iterations)
        => /\ consecutive_cold_rounds = iterations
           /\ pc = "loop" => iterations < Max(2, min_rounds)
           /\ pc = "done" =>
                IF Max(2, min_rounds) <= max_rounds
                THEN /\ iterations = Max(2, min_rounds)
                     /\ Cardinality(Shown("closing")) = 1
                ELSE /\ iterations = max_rounds
                     /\ Shown("closing") = {}

\* threshold heated, every round heated, minRounds 4 and three scheduled
\* rounds: the loop goes on after rounds 2 and 3, is extended to a fourth
\* round and ends early after it
C31_Witness ==
    /\ AllCold
    /\ pc = "done"
    /\ intervention_threshold = "heated"
    /\ analysed = <<"heated", "heated", "heated", "heated">>
    /\ min_rounds = 4
    /\ original_max_rounds = 3
    /\ max_rounds = 4
    /\ Cardinality(Shown("closing")) = 1

\* C32: an iteration without analysis leaves consecutiveColdRounds at 0, so
\* the loop ends early at the end of round r only if analysis ran in rounds
\* r-1 and r: with analysisFrequency 2 only at the end of round 2, hence
\* only when minRounds <= 2, and with analysisFrequency >= 3 never.
C32_EarlyEndNeedsTwoAnalysedRounds ==
    /\ (/\ pc \in {"loop", "done"}
        /\ iterations >= 1
        /\ Len(analysed) = iterations
        /\ analysed[iterations] = "none")
          => consecutive_cold_rounds = 0
    /\ Shown("closing") # {}
          => /\ iterations >= 2
             /\ analysed[iterations] # "none"
             /\ analysed[iterations - 1] # "none"
             /\ analysis_frequency < 3
             /\ analysis_frequency = 2
                   => (iterations = 2 /\ min_rounds <= 2)

\* analysis every second round, four rounds scheduled: ended after round 2
C32_Witness ==
    /\ pc = "done"
    /\ Shown("closing") # {}
    /\ analysis_frequency = 2
    /\ original_max_rounds = 4
    /\ iterations = 2
    /\ consecutive_cold_rounds = 2

\* analysis every third round: a cold reading in round 3 after an unanalysed
\* round 2, and the debate goes on
C32_ColdAfterGap ==
    /\ pc = "loop"
    /\ analysis_frequency = 3
    /\ iterations = 3
    /\ ColdAt(1)
    /\ ColdAt(3)
    /\ consecutive_cold_rounds = 1

\* C33: the limit is raised only in a final round in which analysis ran; when
\* originalMaxRounds is 1 or is not a multiple of analysisFrequency,
\* maxRounds keeps its configured value and no extension message is shown,
\* whatever the analyzer reports.
C33_ExtensionNeedsAnalysedFinalRound ==
    /\ [][(pc # "init" /\ max_rounds' # max_rounds)
             => /\ Len(analysed) = iterations
                /\ analysed[iterations] # "none"
                /\ current_round = max_rounds]_vars
    /\ []((/\ pc # "init"
           /\ \/ original_max_rounds = 1
              \/ original_max_rounds % analysis_frequency # 0)
             => /\ max_rounds = original_max_rounds
                /\ Shown("extension") = {})

\* three rounds with analysis every second round: heated readings in rounds
\* 1 and 2, none in the final round, and the debate ends after three rounds
C33_Witness ==
    /\ pc = "done"
    /\ original_max_rounds = 3
    /\ analysis_frequency = 2
    /\ analysed = <<"heated", "heated", "none">>
    /\ max_rounds = 3

\* a single scheduled round read as heated is not extended either
C33_SingleRoundHeated ==
    /\ pc = "done"
    /\ original_max_rounds = 1
    /\ analysed = <<"heated">>
    /\ max_rounds = 1

\* C34: the dispatcher loop never ends with fewer than minRounds rounds run:
\* when the loop has exited, currentRound >= minRounds, for every
\* configuration of minRounds and max_rounds and every analyzer behaviour.
C34_LoopRunsMinRounds ==
    pc = "done" => current_round >= min_rounds

\* a temperature or threshold read on the order: balanced and normal are
\* neutral, and so is any value outside the order
ReadAsNeutral(t) ==
    IF TempMap(t) \in Range(order) THEN TempMap(t) ELSE "neutral"

\* C35: _temperature_leq_threshold returns a boolean for every temperature
\* and every interventionThreshold, consistent with the order
\* cold < stuck < neutral < heated with unknown values read as neutral; it
\* never raises, so the cold test of an analysed round never aborts the
\* dispatcher loop and always settles the cold counter.
C35_ThresholdComparisonNeverRaises ==
    [][(pc = "policy" /\ analysis # <<>>)
         => /\ pc' # "raised"
            /\ consecutive_cold_rounds' =
                 IF Rank(ReadAsNeutral(analysis[1].temperature))
                       <= Rank(ReadAsNeutral(intervention_threshold))
                 THEN consecutive_cold_rounds + 1
                 ELSE 0]_vars

\* the contents of the first n transcript entries
ContentsBefore(n) ==
    [j \in 1..n |->
        <<all_statements[j].agent_name,
          IF j \in apologies THEN "apology" ELSE "reply">>]

\* C36: every turn of a round is built from the cumulative transcript: the
\* list handed to a participant holds the contents of all entries appended
\* so far, those of earlier speakers of the same round included, and the
\* participant's entry is in the transcript before the next call is made.
\* (Opening statements are asked for with the topic alone and take no list.)
C36_TurnsSeeCumulativeTranscript ==
    /\ \A k \in DOMAIN statements :
          /\ statements[k].turn \in DOMAIN all_statements
          /\ all_statements[statements[k].turn].stage # "initial"
          /\ statements[k].list = ContentsBefore(statements[k].turn - 1)
          /\ k > 1 => statements[k - 1].turn < statements[k].turn
    /\ \A j \in DOMAIN all_statements :
          all_statements[j].stage # "initial"
              => \E k \in DOMAIN statements : statements[k].turn = j

\* a Clash round after the opening statements: the second speaker's list
\* ends with the first speaker's reply of the same round
C36_Witness ==
    /\ last_handler = "focus_clash"
    /\ Len(statements) >= 3
    /\ LET call == statements[2]
       IN  /\ Len(call.list) = call.turn - 1
           /\ call.turn >= 2
           /\ all_statements[call.turn].stage = "clash"
           /\ all_statements[call.turn - 1].stage = "clash"
           /\ call.list[call.turn - 1][1]
                 = all_statements[call.turn - 1].agent_name

\* the participants the second resolution names among the round's targets,
\* at most two
FollowUpNames ==
    SelectSeq(SubSeq(follow_up_analysis.targeted_panels, 1,
                     Min(2, Len(follow_up_analysis.targeted_panels))),
              LAMBDA n : n \in Range(ResolvedNames))

\* C37: when a call of the escalation step of a Provoke debate-mode round
\* raises (the second responder call, the second resolution or a follow-up
\* turn), the round still returns TRUE and the exception does not leave
\* the handler; the targeted participants' entries and the follow-up
\* entries appended before the error are in the transcript.
C37_EscalationErrorsAreCaught ==
    (/\ pc \in {"returned", "raised"}
     /\ last_handler = "provoke_debate"
     /\ ~message_analysis.error
     /\ DebateMode
     /\ Targeted
     /\ follow_up_analysis.error # "none")
        => /\ pc = "returned"
           /\ round_completed
           /\ AfterInitial =
                SelectSeq(all_statements, LAMBDA e : e.stage = "provoke")
                \o FollowUpEntries
           /\ SpeakerNames(SelectSeq(all_statements,
                                     LAMBDA e : e.stage = "provoke"))
                = ResolvedNames
           /\ responder_calls = 2
           /\ follow_up_analysis.error = "responder"
                => /\ resolver_calls = 1
                   /\ Shown("follow_up") = {}
                   /\ FollowUpEntries = <<>>
           /\ follow_up_analysis.error = "resolver"
                => /\ resolver_calls = 2
                   /\ Cardinality(Shown("follow_up")) = 1
                   /\ FollowUpEntries = <<>>
           /\ follow_up_analysis.error = "first_turn"
                => /\ resolver_calls = 2
                   /\ FollowUpEntries = <<>>
           /\ follow_up_analysis.error = "second_turn"
                => /\ resolver_calls = 2
                   /\ SpeakerNames(FollowUpEntries)
                        = SubSeq(FollowUpNames, 1, Min(1, Len(FollowUpNames)))

\* A and B debate, the second resolution names B and A, B speaks again and
\* A's follow-up turn raises: three entries stay and the round is complete
C37_Witness ==
    /\ pc = "returned"
    /\ round_completed
    /\ last_handler = "provoke_debate"
    /\ message_analysis = Resolution(<<"A", "B">>, "debate", FALSE)
    /\ follow_up_analysis = FollowUp(51, TRUE, <<"B", "A">>, "second_turn")
    /\ SpeakerNames(AfterInitial) = <<"A", "B", "B">>

\* the hand-off messages of the initial-opinions stage of the current run
OpeningHandOffs ==
    {i \in ShownInRound("handoff", 0) :
        \A k \in Shown("debate_start") : k < i}

\* C38: in the initial-opinions stage of every run, a second run on the
\* same orchestrator and rosters that share a name included, each hand-off
\* message is followed by exactly one transcript entry of that participant,
\* so the stage appends one entry per roster member in roster order.
C38_OneOpeningPerHandOff ==
    pc \in {"discussion", "static_done"}
        => /\ SpeakerNames(OpeningEntries) = RosterNames(1)
           /\ Cardinality(OpeningHandOffs) = Len(panel_agents)
           /\ \A i \in OpeningHandOffs :
                 /\ display[i].at + 1 \in DOMAIN all_statements
                 /\ all_statements[display[i].at + 1].stage = "initial"
           /\ \A i, k \in OpeningHandOffs :
                 i # k => display[i].at # display[k].at

\* C39: the dispatcher loop and every round handler leave the roster as it
\* was handed over: the list of participants and its order are the same
\* after every step of the debate, whatever rounds, failures, early
\* termination and extension it goes through.
C39_RosterUnchanged ==
    [][panel_agents' = panel_agents]_vars

\* a debate in which a round failed to resolve a target and was replaced by
\* the forced Normal round, and which was extended and ended with a Clash
\* round
C39_Witness ==
    /\ pc = "done"
    /\ Shown("extension") # {}
    /\ last_handler = "focus_clash"
    /\ handler_calls > iterations
    /\ Spoken({"clash"}, current_round) # {}
    /\ panel_agents = RosterOfSize(MaxRoster)

====
